---- MODULE Spec2Model ----
(***************************************************************************)
(* A model of devserver-mcp's log classification pipeline: the LogParser   *)
(* (ordered regular-expression rules, bounded newest-first error history,  *)
(* read-only queries) of src/src/log-parser.ts with the built-in rules of  *)
(* src/src/config/default-patterns.ts, and the FileWatcher (recent file    *)
(* changes, correlation of errors with changes) of                         *)
(* src/src/file-watcher.ts.                                                *)
(*                                                                         *)
(* Strings are TLA+ strings; a character is a string of length one.  A     *)
(* JavaScript RegExp is a sequence of atoms that a backtracking matcher    *)
(* executes the way RegExp.prototype.exec does (leftmost match, greedy     *)
(* quantifiers, capture groups, the global flag's lastIndex).  An optional *)
(* property of a JavaScript object is a record field that is present or    *)
(* not.                                                                    *)
(***************************************************************************)
EXTENDS Integers, Sequences, FiniteSets, TLC

(***************************************************************************)
(* Bounds of the model.                                                    *)
(***************************************************************************)
\* the largest historyLimit a configuration sets
MaxLimit == 3
\* the number of records one run creates
MaxParses == 3
\* the number of file changes FileWatcher holds at once
MaxChanges == 2
\* the number of records one run creates while the files are watched
MaxWatched == 2
\* the time of the clock, in milliseconds, at which a run ends
MaxNow == 2000
\* the number of records one run creates after the configuration is loaded
MaxLoaded == 2
\* the number of lines the monitored process writes in one run
MaxWritten == 2
\* the number of 'data' events of one run of the server with its clients
MaxData == 3
\* the number of errors one run of the server with several clients detects
MaxBroadcast == 2
\* the number of writeState calls of one run with the shared state file
MaxWrites == 2
\* the number of writeFile calls that have not completed
MaxWriting == 2
\* the time of the clock, in milliseconds, at which a run with the shared
\* state file ends
MaxStateNow == 50000
\* the number of children one run of ProcessMonitor spawns
MaxChildren == 2
\* the number of force-kill timers that wait at once
MaxKillTimers == 2
\* the time of the clock, in milliseconds, at which a run of ProcessMonitor
\* ends
MaxMonitorNow == 10000
\* the time of the clock, in milliseconds, at which a run with clients ends
MaxBufferNow == 400000

(***************************************************************************)
(* Strings.                                                                *)
(***************************************************************************)
CharAt(s, i) == SubSeq(s, i, i)

Digits == {"0", "1", "2", "3", "4", "5", "6", "7", "8", "9"}

\* the white space String.prototype.trim and the class \s know of, as far
\* as the lines of the model use it
WhiteSpace == {" ", "\t", "\n", "\r"}

LineTerminators == {"\n", "\r"}

Letters ==
  {"a", "b", "c", "d", "e", "f", "g", "h", "i", "j", "k", "l", "m", "n", "o",
   "p", "q", "r", "s", "t", "u", "v", "w", "x", "y", "z",
   "A", "B", "C", "D", "E", "F", "G", "H", "I", "J", "K", "L", "M", "N", "O",
   "P", "Q", "R", "S", "T", "U", "V", "W", "X", "Y", "Z"}

WordChars == Letters \cup Digits \cup {"_"}

\* the index of the first character of s at or after index i that is not
\* white space (Len(s) + 1 when there is none)
RECURSIVE SkipSpaceFwd(_, _)
SkipSpaceFwd(s, i) ==
  IF i <= Len(s) /\ CharAt(s, i) \in WhiteSpace THEN SkipSpaceFwd(s, i + 1) ELSE i

\* the index of the last character of s at or before index j that is not
\* white space (0 when there is none)
RECURSIVE SkipSpaceBwd(_, _)
SkipSpaceBwd(s, j) ==
  IF j >= 1 /\ CharAt(s, j) \in WhiteSpace THEN SkipSpaceBwd(s, j - 1) ELSE j

\* String.prototype.trim
Trim(s) == SubSeq(s, SkipSpaceFwd(s, 1), SkipSpaceBwd(s, Len(s)))

\* s.endsWith(t)
EndsWith(s, t) ==
  /\ Len(t) <= Len(s)
  /\ SubSeq(s, Len(s) - Len(t) + 1, Len(s)) = t

\* s.startsWith(t, i - 1): t occurs in s at index i
OccursAt(s, t, i) ==
  /\ i + Len(t) - 1 <= Len(s)
  /\ SubSeq(s, i, i + Len(t) - 1) = t

DigitValue(c) ==
  CASE c = "0" -> 0 [] c = "1" -> 1 [] c = "2" -> 2 [] c = "3" -> 3
    [] c = "4" -> 4 [] c = "5" -> 5 [] c = "6" -> 6 [] c = "7" -> 7
    [] c = "8" -> 8 [] c = "9" -> 9

IsDigits(s) == Len(s) > 0 /\ \A i \in 1..Len(s) : CharAt(s, i) \in Digits

\* Number(s) of a string of decimal digits
RECURSIVE DecimalValue(_)
DecimalValue(s) ==
  IF Len(s) = 0 THEN 0
  ELSE 10 * DecimalValue(SubSeq(s, 1, Len(s) - 1)) + DigitValue(CharAt(s, Len(s)))

(***************************************************************************)
(* Regular expressions.  A RegExp object is [source, atoms, groups,         *)
(* lastIndex]: source is the text of the pattern, atoms the pattern itself, *)
(* one atom per element in source order, groups the number of capture      *)
(* groups it declares, lastIndex the (0-based) position the global flag     *)
(* keeps between exec calls.                                               *)
(***************************************************************************)
\* literal text
Lit(s) == [k |-> "lit", s |-> s]
\* c+ for a character class c: "any" is ., "digit" \d, "space" \s,
\* "nonspace" \S, "word" \w
Plus(cls) == [k |-> "plus", cls |-> cls]
\* the opening and the closing parenthesis of capture group g
Open(g) == [k |-> "open", g |-> g]
Close(g) == [k |-> "close", g |-> g]
\* (?:a|b|c) for literal alternatives
Alt(opts) == [k |-> "alt", opts |-> opts]
\* s? for a literal s
Opt(s) == [k |-> "opt", s |-> s]

\* new RegExp(source, 'gm'): atoms is the pattern that source spells
RegExp(source, atoms, groups) ==
  [source |-> source, atoms |-> atoms, groups |-> groups, lastIndex |-> 0]

\* whether character c belongs to class cls (no s flag: . excludes the line
\* terminators)
ClassHas(cls, c) ==
  CASE cls = "any" -> c \notin LineTerminators
    [] cls = "digit" -> c \in Digits
    [] cls = "space" -> c \in WhiteSpace
    [] cls = "nonspace" -> c \notin WhiteSpace
    [] cls = "word" -> c \in WordChars

\* the least and the greatest element of a non-empty set of integers
Least(S) == CHOOSE i \in S : \A j \in S : i <= j
Greatest(S) == CHOOSE i \in S : \A j \in S : j <= i

\* the number of consecutive characters of class cls in s from index pos on
RunLength(cls, s, pos) ==
  LET others == {j \in pos..Len(s) : ~ClassHas(cls, CharAt(s, j))}
  IN (IF others = {} THEN Len(s) + 1 ELSE Least(others)) - pos

NoMatch == [ok |-> FALSE]

\* The backtracking matcher: atoms k.. of the pattern against s from index
\* pos, with the capture positions found so far.  A greedy + takes the
\* longest run with which the rest of the pattern matches (the engine tries
\* the longest first and gives characters back one at a time); an
\* alternation takes the leftmost alternative with which the rest matches.
RECURSIVE MatchFrom(_, _, _, _, _)
MatchFrom(atoms, k, s, pos, caps) ==
  IF k > Len(atoms) THEN [ok |-> TRUE, end |-> pos, caps |-> caps]
  ELSE LET a == atoms[k] IN
    CASE a.k = "lit" ->
           IF OccursAt(s, a.s, pos)
             THEN MatchFrom(atoms, k + 1, s, pos + Len(a.s), caps)
             ELSE NoMatch
      [] a.k = "open" ->
           MatchFrom(atoms, k + 1, s, pos, [caps EXCEPT ![a.g] = <<pos, pos>>])
      [] a.k = "close" ->
           MatchFrom(atoms, k + 1, s, pos, [caps EXCEPT ![a.g] = <<caps[a.g][1], pos>>])
      [] a.k = "plus" ->
           \* the longest run of the class after which the rest matches
           LET fit == {n \in 1..RunLength(a.cls, s, pos) :
                         MatchFrom(atoms, k + 1, s, pos + n, caps).ok}
           IN IF fit = {} THEN NoMatch
              ELSE MatchFrom(atoms, k + 1, s, pos + Greatest(fit), caps)
      [] a.k = "alt" ->
           \* the first alternative after which the rest matches
           LET fit == {i \in 1..Len(a.opts) :
                         /\ OccursAt(s, a.opts[i], pos)
                         /\ MatchFrom(atoms, k + 1, s, pos + Len(a.opts[i]), caps).ok}
           IN IF fit = {} THEN NoMatch
              ELSE MatchFrom(atoms, k + 1, s, pos + Len(a.opts[Least(fit)]), caps)
      [] a.k = "opt" ->
           LET taken == IF OccursAt(s, a.s, pos)
                          THEN MatchFrom(atoms, k + 1, s, pos + Len(a.s), caps)
                          ELSE NoMatch
           IN IF taken.ok THEN taken ELSE MatchFrom(atoms, k + 1, s, pos, caps)

\* the leftmost match of the pattern in s that starts at index start or later
SearchFrom(re, s, start) ==
  LET none == [g \in 1..re.groups |-> <<0, 0>>]
      fit == {i \in start..(Len(s) + 1) : MatchFrom(re.atoms, 1, s, i, none).ok}
  IN IF fit = {} THEN NoMatch
     ELSE LET r == MatchFrom(re.atoms, 1, s, Least(fit), none)
          IN [ok |-> TRUE, index |-> Least(fit), end |-> r.end, caps |-> r.caps]

\* RegExp.prototype.exec of a global-flag expression: the search starts at
\* lastIndex.  The result is [matched, match, lastIndex]: matched tells a
\* match array from null; match[1] is JavaScript's match[0], the whole match,
\* and match[g + 1] the text of capture group g; lastIndex is the expression's
\* lastIndex after the call: the end of the match, or 0 when nothing matched.
RegExpExec(re, s) ==
  LET r == IF re.lastIndex > Len(s) THEN NoMatch ELSE SearchFrom(re, s, re.lastIndex + 1)
  IN IF r.ok
       THEN [matched |-> TRUE,
             match |-> <<SubSeq(s, r.index, r.end - 1)>> \o
                        [g \in 1..re.groups |-> SubSeq(s, r.caps[g][1], r.caps[g][2] - 1)],
             lastIndex |-> r.end - 1]
       ELSE [matched |-> FALSE, match |-> <<>>, lastIndex |-> 0]

(***************************************************************************)
(* The rules.  A LogPattern is [name, pattern, category, severity,         *)
(* extract]; extract holds a field only when the rule sets it.             *)
(***************************************************************************)
Severities == {"critical", "warning", "info"}

Categories ==
  {"typescript", "svelte", "vite", "network", "build", "runtime", "accessibility", "unknown"}

LogPattern(name, pattern, category, severity, extract) ==
  [name |-> name, pattern |-> pattern, category |-> category,
   severity |-> severity, extract |-> extract]

\* (.+):(\d+):(\d+) with capture groups g, g + 1, g + 2
Location(g) ==
  <<Open(g), Plus("any"), Close(g), Lit(":"), Open(g + 1), Plus("digit"), Close(g + 1),
    Lit(":"), Open(g + 2), Plus("digit"), Close(g + 2)>>

\* (.+) as capture group g
Rest(g) == <<Open(g), Plus("any"), Close(g)>>

defaultPatterns == <<
  LogPattern("vite-dev-server-ready",
    RegExp("\\s+Local:\\s+http:\\/\\/localhost:(\\d+)\\/",
      <<Plus("space"), Lit("Local:"), Plus("space"), Lit("http://localhost:"),
             Open(1), Plus("digit"), Close(1), Lit("/")>>, 1),
    "build", "info", [message |-> 0]),
  LogPattern("typescript-vite-error",
    RegExp("src\\/(.+\\.(?:ts|js|svelte)):(\\d+):(\\d+) - error TS(\\d+): (.+)",
      <<Lit("src/"), Open(1), Plus("any"), Lit("."), Alt(<<"ts", "js", "svelte">>),
             Close(1), Lit(":"), Open(2), Plus("digit"), Close(2), Lit(":"),
             Open(3), Plus("digit"), Close(3), Lit(" - error TS"),
             Open(4), Plus("digit"), Close(4), Lit(": ")>> \o Rest(5), 5),
    "typescript", "critical", [file |-> 1, line |-> 2, column |-> 3, message |-> 5]),
  LogPattern("typescript-generic-error",
    RegExp("error TS(\\d+): (.+)",
      <<Lit("error TS"), Open(1), Plus("digit"), Close(1), Lit(": ")>> \o Rest(2), 2),
    "typescript", "critical", [message |-> 2]),
  LogPattern("svelte-compile-error",
    RegExp("ParseError: (.+) \\((\\d+):(\\d+)\\)",
      <<Lit("ParseError: ")>> \o Rest(1) \o
           <<Lit(" ("), Open(2), Plus("digit"), Close(2), Lit(":"),
             Open(3), Plus("digit"), Close(3), Lit(")")>>, 3),
    "svelte", "critical", [message |-> 1, line |-> 2, column |-> 3]),
  LogPattern("svelte-plugin-compile-error",
    RegExp("\\[plugin:vite-plugin-svelte:compile\\] (.+):(\\d+):(\\d+) (.+)",
      <<Lit("[plugin:vite-plugin-svelte:compile] ")>> \o Location(1) \o
           <<Lit(" ")>> \o Rest(4), 4),
    "svelte", "critical", [file |-> 1, line |-> 2, column |-> 3, message |-> 4]),
  LogPattern("svelte-plugin-warning",
    RegExp("\\[plugin:vite:svelte\\] (.+) \\((.+):(\\d+):(\\d+)\\)",
      <<Lit("[plugin:vite:svelte] ")>> \o Rest(1) \o <<Lit(" (")>> \o Location(2) \o
           <<Lit(")")>>, 4),
    "svelte", "warning", [message |-> 1, file |-> 2, line |-> 3, column |-> 4]),
  LogPattern("svelte-a11y-warning",
    RegExp("\\[vite-plugin-svelte\\] (.+):(\\d+):(\\d+) (.+)",
      <<Lit("[vite-plugin-svelte] ")>> \o Location(1) \o <<Lit(" ")>> \o Rest(4), 4),
    "accessibility", "warning", [file |-> 1, line |-> 2, column |-> 3, message |-> 4]),
  LogPattern("vite-pre-transform-error",
    RegExp("\\[vite\\] \\(client\\) Pre-transform error: (.+):(\\d+):(\\d+) (.+)",
      <<Lit("[vite] (client) Pre-transform error: ")>> \o Location(1) \o
           <<Lit(" ")>> \o Rest(4), 4),
    "svelte", "critical", [file |-> 1, line |-> 2, column |-> 3, message |-> 4]),
  LogPattern("vite-internal-server-error",
    RegExp("\\[vite\\] Internal server error: (.+):(\\d+):(\\d+) (.+)",
      <<Lit("[vite] Internal server error: ")>> \o Location(1) \o
           <<Lit(" ")>> \o Rest(4), 4),
    "svelte", "critical", [file |-> 1, line |-> 2, column |-> 3, message |-> 4]),
  LogPattern("vite-import-analysis-failed",
    RegExp("\\[vite\\] Import analysis failed: (.+)",
      <<Lit("[vite] Import analysis failed: ")>> \o Rest(1), 1),
    "build", "critical", [message |-> 1]),
  LogPattern("vite-transform-failed",
    RegExp("\\[vite\\] Transform failed with \\d+ errors?:\\n(.+)",
      <<Lit("[vite] Transform failed with "), Plus("digit"), Lit(" error"), Opt("s"),
             Lit(":\n")>> \o Rest(1), 1),
    "build", "critical", [message |-> 1]),
  LogPattern("vite-module-not-found",
    RegExp("Cannot resolve dependency: (.+)",
      <<Lit("Cannot resolve dependency: ")>> \o Rest(1), 1),
    "build", "critical", [message |-> 1]),
  LogPattern("vite-resolve-failed",
    RegExp("Failed to resolve import \"(.+)\" from \"(.+)\"",
      <<Lit("Failed to resolve import \"")>> \o Rest(1) \o <<Lit("\" from \"")>> \o
           Rest(2) \o <<Lit("\"")>>, 2),
    "build", "critical", [message |-> 0, file |-> 2]),
  LogPattern("vite-dev-404",
    RegExp("404 (\\S+)",
      <<Lit("404 "), Open(1), Plus("nonspace"), Close(1)>>, 1),
    "network", "warning", [message |-> 1]),
  LogPattern("vite-proxy-error",
    RegExp("\\[vite\\] http proxy error:\\n(.+)",
      <<Lit("[vite] http proxy error:\n")>> \o Rest(1), 1),
    "network", "warning", [message |-> 1]),
  LogPattern("vite-hmr-update",
    RegExp("\\[vite\\] (.+) reloaded\\.",
      <<Lit("[vite] ")>> \o Rest(1) \o <<Lit(" reloaded.")>>, 1),
    "build", "info", [message |-> 1]),
  LogPattern("vite-hmr-error",
    RegExp("\\[vite\\] HMR update error: (.+)",
      <<Lit("[vite] HMR update error: ")>> \o Rest(1), 1),
    "runtime", "critical", [message |-> 1]),
  LogPattern("postcss-error",
    RegExp("\\[postcss\\] (.+) \\((.+):(\\d+):(\\d+)\\)",
      <<Lit("[postcss] ")>> \o Rest(1) \o <<Lit(" (")>> \o Location(2) \o
           <<Lit(")")>>, 4),
    "build", "critical", [message |-> 1, file |-> 2, line |-> 3, column |-> 4]),
  LogPattern("browser-runtime-error",
    RegExp("Uncaught \\w+: (.+) at (.+):(\\d+):(\\d+)",
      <<Lit("Uncaught "), Plus("word"), Lit(": ")>> \o Rest(1) \o <<Lit(" at ")>> \o
           Location(2), 4),
    "runtime", "critical", [message |-> 1, file |-> 2, line |-> 3, column |-> 4]),
  LogPattern("console-error",
    RegExp("console\\.error\\(\\): (.+)",
      <<Lit("console.error(): ")>> \o Rest(1), 1),
    "runtime", "warning", [message |-> 1]),
  LogPattern("tailwind-warning",
    RegExp("warn - (.+)",
      <<Lit("warn - ")>> \o Rest(1), 1),
    "build", "warning", [message |-> 1]),
  LogPattern("sveltekit-error",
    RegExp("\\[sveltekit\\] (.+)",
      <<Lit("[sveltekit] ")>> \o Rest(1), 1),
    "svelte", "warning", [message |-> 1]),
  LogPattern("generic-file-error",
    RegExp("(.+\\.(?:ts|js|svelte|vue|css|scss)):(\\d+):(\\d+): (.+)",
      <<Open(1), Plus("any"), Lit("."),
             Alt(<<"ts", "js", "svelte", "vue", "css", "scss">>), Close(1), Lit(":"),
             Open(2), Plus("digit"), Close(2), Lit(":"), Open(3), Plus("digit"), Close(3),
             Lit(": ")>> \o Rest(4), 4),
    "build", "warning", [file |-> 1, line |-> 2, column |-> 3, message |-> 4])
>>

(***************************************************************************)
(* The inputs: the lines the monitored process writes and the              *)
(* configurations a configuration file gives.                              *)
(***************************************************************************)
TypeScriptLine == "src/App.svelte:25:15 - error TS2304: Cannot find name 'test'."

SvelteLine == "[vite-plugin-svelte] Component has unused CSS selector"

Lines ==
  {TypeScriptLine,
   SvelteLine,
   "",
   "   ",
   "CUSTOM: boom",
   "src/App.svelte:3:1: Unexpected token",
   "src/MyApp.svelte:3:1: Unexpected token",
   "  [vite] page reloaded. "}

\* the lines the process writes while the files are watched: errors of
\* App.svelte and src/App.svelte and one that names no file
WatchLines ==
  {TypeScriptLine,
   "src/App.svelte:3:1: Unexpected token",
   "error TS2304: Error 1"}

\* the notifications of the file system: [path, type]
ChangeEvents ==
  {[path |-> "src/App.svelte", type |-> "modified"],
   [path |-> "lib/util.ts", type |-> "added"]}

\* the default of ConfigSchema.correlationWindow, in milliseconds
DefaultWindow == 5000

\* the correlation windows the configurations set, within the schema's
\* 1000..300000
Windows == {1000, 2000}

\* the milliseconds that pass between two events
Steps == {1000}

\* the lines the monitored process writes to its streams: one a built-in
\* rule matches, one no rule matches
StreamLines == {"404 /a", "ok"}

\* the streams of the monitored process
Streams == {"stdout", "stderr"}

\* the length of a chunk of data that does not hold all the process has
\* written
CutLength == 4

\* every piece of a line that a chunk can begin or end in
StreamFragments ==
  UNION {{SubSeq(line, from, to) : from \in 1..Len(line), to \in 1..Len(line)} :
         line \in StreamLines}

\* the line of a burst, and the numbers of lines the monitored process
\* writes at once
BurstLine == "404 /a"
BurstSizes == {1, 25}

\* the milliseconds that pass between two events of the server with its
\* clients
BufferSteps == {200000}

\* the clients that connect to /sse
Clients == {"c1"}

\* the clients that connect to /sse of the server with several clients
BroadcastClients == {"c1", "c2"}

\* what transport.send does on a connection that has failed: it throws, or
\* it returns a promise that is rejected (no handler of the server sees it)
SendFailures == {"throws", "rejects"}

\* the limits a caller of get_error_history names
Limits == {0, 1, 2, 50}

\* the times a caller of get_error_history asks the errors since
SinceTimes == {0, 1000, 2000}

\* the rule of the README's configuration example: no extract map
userPatterns == <<
  LogPattern("custom-error",
    RegExp("CUSTOM: (.+)", <<Lit("CUSTOM: ")>> \o Rest(1), 1),
    "runtime", "critical", [field \in {} |-> 0])
>>

\* loadConfig puts the built-in rules before the rules of the file
PatternLists == {defaultPatterns, defaultPatterns \o userPatterns}

\* The rules configuration files give, as ConfigSchema.parse compiles them:
\* one that matches lines a built-in rule matches too, one whose extract
\* indices name no capture group, one that captures any text as line and
\* column, one whose message capture is white space, one that matches the
\* empty string.
fileRules == <<
  LogPattern("ts-code",
    RegExp("TS(\\d+)", <<Lit("TS"), Open(1), Plus("digit"), Close(1)>>, 1),
    "unknown", "info", [message |-> 1]),
  LogPattern("bad-index",
    RegExp("BAD: (.+)", <<Lit("BAD: ")>> \o Rest(1), 1),
    "build", "warning", [message |-> 3, file |-> 2, line |-> 5, column |-> -1]),
  LogPattern("position",
    RegExp("POS (\\S+) (\\S+)",
      <<Lit("POS "), Open(1), Plus("nonspace"), Close(1), Lit(" "),
        Open(2), Plus("nonspace"), Close(2)>>, 2),
    "runtime", "warning", [line |-> 1, column |-> 2]),
  LogPattern("padded",
    RegExp("PAD(\\s+)end", <<Lit("PAD"), Open(1), Plus("space"), Close(1), Lit("end")>>, 1),
    "build", "info", [message |-> 1, file |-> 1]),
  LogPattern("anything",
    RegExp("s?", <<Opt("s")>>, 0),
    "unknown", "info", [field \in {} |-> 0])
>>

\* a rule as a configuration file writes it: the pattern is its text, and
\* the extract map is left out when it is empty
RawRule(rule) ==
  [name |-> rule.name, pattern |-> rule.pattern.source, category |-> rule.category,
   severity |-> rule.severity]
  @@ (IF DOMAIN rule.extract = {} THEN <<>> ELSE [extract |-> rule.extract])

\* a rule whose pattern is no regular expression: the group is not closed
BrokenRule ==
  [name |-> "broken", pattern |-> "BROKEN: (.+", category |-> "runtime",
   severity |-> "critical"]

\* the configuration files: the README's example with a second rule, a file
\* of rules alone, a file with the broken rule, a file whose historyLimit is
\* below the schema's minimum
ConfigFiles ==
  {[patterns |-> <<RawRule(userPatterns[1]), RawRule(fileRules[1])>>, historyLimit |-> 10],
   [patterns |-> <<RawRule(fileRules[2]), RawRule(fileRules[3]), RawRule(fileRules[4]),
                   RawRule(fileRules[5])>>],
   [patterns |-> <<RawRule(userPatterns[1]), BrokenRule>>],
   [historyLimit |-> 5]}

\* the configuration files that exist, in the order loadConfig looks for them
ConfigFileLists ==
  {<<>>} \cup {<<f>> : f \in ConfigFiles} \cup {<<f, g>> : f, g \in ConfigFiles}

\* the lines the process writes once the configuration is loaded
LoadLines ==
  {"CUSTOM: boom",
   "error TS2304: Error 1",
   "TS7006 only",
   "BAD: thing",
   "POS 12 x7",
   "POS 1.5 3",
   "PAD   end",
   "plain text"}

Configs ==
  {[patterns |-> ps, historyLimit |-> n] : ps \in PatternLists, n \in 1..MaxLimit}

\* the configurations as FileWatcher reads them
WatchConfigs == {[correlationWindow |-> w] : w \in Windows}

(***************************************************************************)
(* exec is a function of the expression and the string alone: its values   *)
(* for the expressions and the trimmed lines of the model are tabulated    *)
(* once, and the parser reads the table.                                   *)
(***************************************************************************)
TrimmedLines ==
  {Trim(l) : l \in Lines \cup WatchLines \cup LoadLines \cup StreamFragments}

RegExps == UNION {{ps[i].pattern : i \in 1..Len(ps)} : ps \in PatternLists \cup {fileRules}}

Sources == {re.source : re \in RegExps}

execTable ==
  [a \in Sources \X TrimmedLines |->
     RegExpExec(CHOOSE re \in RegExps : re.source = a[1], a[2])] @@ <<>>

exec(re, s) ==
  IF re.lastIndex = 0 /\ re.source \in Sources /\ s \in TrimmedLines
    THEN execTable[<<re.source, s>>]
    ELSE RegExpExec(re, s)

(***************************************************************************)
(* The state.                                                              *)
(***************************************************************************)
VARIABLES
  patterns,      \* LogParser.patterns: the rule list, each rule with its RegExp
  errorHistory,  \* LogParser.errorHistory: the stored records, newest first
  historyLimit,  \* LogParser.historyLimit
  now,           \* the clock new Date() reads (it stands still under Spec)
  uuids,         \* the number of identifiers randomUUID() has handed out
  call,          \* the last LogParser method called, with its argument
  ret,           \* what the last parseLog call returned
  parsed,        \* history variable: the matching lines parsed since the store
                 \* was last empty by construction or clearHistory
  limitKept,     \* history variable: historyLimit has not changed since then
  dropped,       \* history variable: the records the last call removed from the
                 \* store
  recentChanges,     \* FileWatcher.recentChanges: the file changes, newest first
  correlationWindow, \* FileWatcher.correlationWindow, in milliseconds
  pipe,          \* for each stream, the text the monitored process has written
                 \* and no 'data' event has delivered yet
  written,       \* history variable: for each stream, the lines the process
                 \* has written
  logs,          \* history variable: the 'log' events ProcessMonitor has
                 \* emitted, [line, source] each
  chunks,        \* history variable: the number of 'data' events
  process,       \* ProcessMonitor.process: the child it holds (its index in
                 \* children), 0 for null
  processInfo,   \* ProcessMonitor.processInfo: <<>> for null, or <<info>>
  children,      \* the ChildProcess objects spawn has returned, in order:
                 \* [pid, killed, closed, signals] each
  killTimers,    \* the timers of stopMonitoring that wait: [due, child] each,
                 \* child the one stopMonitoring has signalled
  events,        \* history variable: the 'process-start', 'process-exit' and
                 \* 'error' events ProcessMonitor has emitted
  monitorConfig, \* ProcessMonitor.config: [rules, historyLimit,
                 \* correlationWindow], rules the names of its patterns
                 \* (the array is the one LogParser holds)
  errorBuffer,   \* the server's errorBuffer: [notification, timestamp] each
  detected,      \* history variable: the notifications of all errors detected
  activeSSEConnections,  \* the server's activeSSEConnections: a set of clients
  timers,        \* the pending sendBufferedErrors timers: for a client, the
                 \* time from which its timer can fire
  received,      \* for each client that has connected, the notifications
                 \* sent over its connection
  broken,        \* for each client whose connection has failed, what send
                 \* does on it from then on (SendFailures)
  stateFile,     \* the content of STATE_FILE: <<>> when it does not exist, or
                 \* <<the state written>>
  state,         \* SharedStateManager.state
  writing,       \* the writeFile calls on STATE_FILE that have not
                 \* completed, in the order started: [content, by] each
  reading        \* the number of updateHeartbeat calls that wait for their
                 \* readFile

parserVars == <<patterns, errorHistory, historyLimit, uuids, parsed, limitKept>>

watcherVars == <<recentChanges, correlationWindow>>

processVars == <<process, processInfo, children, killTimers, events, monitorConfig>>

monitorVars == <<pipe, written, logs, chunks, processVars>>

stateVars == <<stateFile, state, writing, reading>>

serverVars == <<errorBuffer, detected, activeSSEConnections, timers, received, broken,
                stateVars>>

vars == <<patterns, errorHistory, historyLimit, now, uuids, call, ret, parsed, limitKept,
          dropped, recentChanges, correlationWindow, pipe, written, logs, chunks,
          process, processInfo, children, killTimers, events, monitorConfig,
          errorBuffer, detected, activeSSEConnections, timers, received, broken,
          stateFile, state, writing, reading>>

\* JavaScript's null and undefined, as the value a call returns
Null == [null |-> TRUE]
Undefined == [undefined |-> TRUE]

(***************************************************************************)
(* LogParser (src/src/log-parser.ts).                                      *)
(***************************************************************************)
\* extractField: undefined is <<>>, a string s is <<s>>.  An index that is
\* not set, or not below match.length, gives undefined; so does an index
\* that names no element of the array (match[fieldIndex] is undefined and
\* ?. stops there).
extractField(match, extract, field) ==
  IF field \notin DOMAIN extract \/ extract[field] >= Len(match) THEN <<>>
  ELSE IF extract[field] < 0 THEN <<>>
  ELSE <<Trim(match[extract[field] + 1])>>

\* a value of JavaScript is truthy: here of a string or undefined
Truthy(v) == v # <<>> /\ v[1] # ""

\* the digits of a fraction without its trailing zeros
RECURSIVE StripZeros(_)
StripZeros(t) ==
  IF Len(t) > 0 /\ CharAt(t, Len(t)) = "0" THEN StripZeros(SubSeq(t, 1, Len(t) - 1)) ELSE t

\* Number(s) of a trimmed string that is a decimal literal (an optional
\* sign, digits, an optional fraction) or no number at all: the strings of
\* the model have no exponent, no radix prefix and no Infinity.  The result
\* is [nan, whole, value]: nan tells NaN, whole a number without a
\* fraction, whose value is an integer of TLA+; the value of any other
\* number is [negative, whole, fraction].
ParseNumber(s) ==
  LET signed == Len(s) > 0 /\ CharAt(s, 1) \in {"+", "-"}
      negative == signed /\ CharAt(s, 1) = "-"
      body == IF signed THEN SubSeq(s, 2, Len(s)) ELSE s
      dots == {i \in 1..Len(body) : CharAt(body, i) = "."}
      whole == IF dots = {} THEN body ELSE SubSeq(body, 1, Least(dots) - 1)
      fraction == IF dots = {} THEN "" ELSE SubSeq(body, Least(dots) + 1, Len(body))
      digitsOnly(t) == \A i \in 1..Len(t) : CharAt(t, i) \in Digits
      significant == StripZeros(fraction)
  IN IF s = "" THEN [nan |-> FALSE, whole |-> TRUE, value |-> 0]
     ELSE IF ~(digitsOnly(whole) /\ digitsOnly(fraction) /\ Len(whole) + Len(fraction) > 0)
       THEN [nan |-> TRUE, whole |-> FALSE, value |-> 0]
     ELSE IF significant = ""
       THEN [nan |-> FALSE, whole |-> TRUE,
             value |-> IF negative THEN 0 - DecimalValue(whole) ELSE DecimalValue(whole)]
     ELSE [nan |-> FALSE, whole |-> FALSE,
           value |-> [negative |-> negative, whole |-> DecimalValue(whole),
                      fraction |-> significant]]

\* Number(s), <<>> standing for NaN
ToNumber(s) ==
  LET n == ParseNumber(s) IN IF n.nan THEN <<>> ELSE <<n.value>>

\* the object with the one property field when v is set, and none otherwise
Property(field, v) == IF v = <<>> THEN <<>> ELSE [x \in {field} |-> v[1]]

\* mutant of createErrorEntry: the message does not fall back to the match
\* and the line
createErrorEntryNoFallback(pattern, match, raw, id, timestamp) ==
  LET message == extractField(match, pattern.extract, "message")
      file == extractField(match, pattern.extract, "file")
      line == extractField(match, pattern.extract, "line")
      column == extractField(match, pattern.extract, "column")
  IN [id |-> id,
      timestamp |-> timestamp,
      severity |-> pattern.severity,
      category |-> pattern.category,
      message |-> IF Truthy(message) THEN message[1] ELSE "",
      raw |-> raw]
     @@ Property("file", IF Truthy(file) THEN file ELSE <<>>)
     @@ Property("line", IF Truthy(line) THEN ToNumber(line[1]) ELSE <<>>)
     @@ Property("column", IF Truthy(column) THEN ToNumber(column[1]) ELSE <<>>)

createErrorEntry(pattern, match, raw, id, timestamp) ==
  LET message == extractField(match, pattern.extract, "message")
      file == extractField(match, pattern.extract, "file")
      line == extractField(match, pattern.extract, "line")
      column == extractField(match, pattern.extract, "column")
  IN [id |-> id,
      timestamp |-> timestamp,
      severity |-> pattern.severity,
      category |-> pattern.category,
      message |-> IF Truthy(message) THEN message[1]
                  ELSE IF match[1] # "" THEN match[1] ELSE raw,
      raw |-> raw]
     @@ Property("file", IF Truthy(file) THEN file ELSE <<>>)
     @@ Property("line", IF Truthy(line) THEN ToNumber(line[1]) ELSE <<>>)
     @@ Property("column", IF Truthy(column) THEN ToNumber(column[1]) ELSE <<>>)

\* mutant of trimHistory: the test is off by one
trimHistoryOffByOne(history, limit) ==
  IF Len(history) > limit + 1 THEN SubSeq(history, 1, limit + 1) ELSE history

\* mutant of trimHistory: slice(-limit) keeps the oldest records
trimHistoryOldest(history, limit) ==
  IF Len(history) > limit
    THEN SubSeq(history, Len(history) - limit + 1, Len(history))
    ELSE history

trimHistory(history, limit) ==
  IF Len(history) > limit THEN SubSeq(history, 1, limit) ELSE history

\* mutant of addToHistory: push instead of unshift
addToHistoryPush(history, error, limit) == trimHistory(history \o <<error>>, limit)

addToHistory(history, error, limit) == trimHistory(<<error>> \o history, limit)

\* mutant of parseLoop: the last matching rule wins
RECURSIVE parseLoopLast(_, _, _, _, _)
parseLoopLast(self, i, trimmedLine, id, timestamp) ==
  IF i > Len(self.patterns)
    THEN [ret |-> Null, patterns |-> self.patterns, errorHistory |-> self.errorHistory]
  ELSE LET later == parseLoopLast(self, i + 1, trimmedLine, id, timestamp)
           pattern == self.patterns[i]
           x == exec(pattern.pattern, trimmedLine)
       IN IF later.ret # Null THEN later
          ELSE IF x.matched
            THEN LET error == createErrorEntry(pattern, x.match, trimmedLine, id, timestamp)
                 IN [ret |-> error,
                     patterns |-> self.patterns,
                     errorHistory |->
                       addToHistory(self.errorHistory, error, self.historyLimit)]
            ELSE later

\* mutant of parseLoop: the match branch does not return, and the loop ends
\* in return null
RECURSIVE parseLoopNoReturn(_, _, _, _, _)
parseLoopNoReturn(self, i, trimmedLine, id, timestamp) ==
  IF i > Len(self.patterns)
    THEN [ret |-> Null, patterns |-> self.patterns, errorHistory |-> self.errorHistory]
  ELSE LET pattern == self.patterns[i]
           x == exec(pattern.pattern, trimmedLine)
       IN IF x.matched
            THEN LET error == createErrorEntry(pattern, x.match, trimmedLine, id, timestamp)
                 IN parseLoopNoReturn(
                      [self EXCEPT !.errorHistory =
                         addToHistory(self.errorHistory, error, self.historyLimit)],
                      i + 1, trimmedLine, id, timestamp)
            ELSE parseLoopNoReturn(self, i + 1, trimmedLine, id, timestamp)

\* mutant of parseLoop: the rule that matched keeps the lastIndex exec left
RECURSIVE parseLoopNoReset(_, _, _, _, _)
parseLoopNoReset(self, i, trimmedLine, id, timestamp) ==
  IF i > Len(self.patterns)
    THEN [ret |-> Null, patterns |-> self.patterns, errorHistory |-> self.errorHistory]
  ELSE LET pattern == self.patterns[i]
           x == exec(pattern.pattern, trimmedLine)
       IN IF x.matched
            THEN LET error == createErrorEntry(pattern, x.match, trimmedLine, id, timestamp)
                 IN [ret |-> error,
                     patterns |-> [self.patterns EXCEPT ![i].pattern.lastIndex = x.lastIndex],
                     errorHistory |->
                       addToHistory(self.errorHistory, error, self.historyLimit)]
            ELSE parseLoopNoReset(
                   [self EXCEPT !.patterns[i].pattern.lastIndex = x.lastIndex],
                   i + 1, trimmedLine, id, timestamp)

\* The loop of parseLog from rule i on, for a parser self = [patterns,
\* errorHistory, historyLimit]: [ret, patterns, errorHistory] is the value
\* returned and the parser's fields when it returns (every exec call and
\* the reset leave their lastIndex in patterns).
RECURSIVE parseLoop(_, _, _, _, _)
parseLoop(self, i, trimmedLine, id, timestamp) ==
  IF i > Len(self.patterns)
    THEN [ret |-> Null, patterns |-> self.patterns, errorHistory |-> self.errorHistory]
  ELSE LET pattern == self.patterns[i]
           x == exec(pattern.pattern, trimmedLine)
       IN IF x.matched
            THEN LET error == createErrorEntry(pattern, x.match, trimmedLine, id, timestamp)
                 IN [ret |-> error,
                     patterns |-> [self.patterns EXCEPT ![i].pattern.lastIndex = 0],
                     errorHistory |->
                       addToHistory(self.errorHistory, error, self.historyLimit)]
            ELSE parseLoop(
                   [self EXCEPT !.patterns[i].pattern.lastIndex = x.lastIndex],
                   i + 1, trimmedLine, id, timestamp)

parseLog(self, logLine, id, timestamp) ==
  LET trimmedLine == Trim(logLine)
  IN IF trimmedLine = ""
       THEN [ret |-> Null, patterns |-> self.patterns, errorHistory |-> self.errorHistory]
       ELSE parseLoop(self, 1, trimmedLine, id, timestamp)

getHistory(history) == history

\* mutant of getErrorsForFile: endsWith(filepath), without the separator
getErrorsForFileNoSlash(history, filepath) ==
  SelectSeq(history, LAMBDA error :
    /\ "file" \in DOMAIN error
    /\ error.file # ""
    /\ (error.file = filepath \/ EndsWith(error.file, filepath)))

\* mutant of getErrorsForFile: the test for the equal path is missing
getErrorsForFileSuffixOnly(history, filepath) ==
  SelectSeq(history, LAMBDA error :
    /\ "file" \in DOMAIN error
    /\ error.file # ""
    /\ EndsWith(error.file, "/" \o filepath))

getErrorsForFile(history, filepath) ==
  SelectSeq(history, LAMBDA error :
    /\ "file" \in DOMAIN error
    /\ error.file # ""
    /\ (error.file = filepath \/ EndsWith(error.file, "/" \o filepath)))

getErrorsBySeverity(history, severity) ==
  SelectSeq(history, LAMBDA error : error.severity = severity)

\* mutant of getErrorsByCategory: the filter reads the wrong field
getErrorsByCategoryOfSeverity(history, category) ==
  SelectSeq(history, LAMBDA error : error.severity = category)

getErrorsByCategory(history, category) ==
  SelectSeq(history, LAMBDA error : error.category = category)

getRecentErrors(history, count) ==
  SubSeq(history, 1, IF count < Len(history) THEN count ELSE Len(history))

getErrorCounts(history) ==
  [critical |-> Len(SelectSeq(history, LAMBDA e : e.severity = "critical")),
   warning |-> Len(SelectSeq(history, LAMBDA e : e.severity = "warning")),
   info |-> Len(SelectSeq(history, LAMBDA e : e.severity = "info"))]

\* counts[error.category]++ for every record, from all eight categories at 0
RECURSIVE getCategoryCountsFrom(_, _, _)
getCategoryCountsFrom(counts, history, i) ==
  IF i > Len(history) THEN counts
  ELSE getCategoryCountsFrom(
         [counts EXCEPT ![history[i].category] = @ + 1], history, i + 1)

\* mutant of getCategoryCounts: the counts start from an empty object
getCategoryCountsSparse(history) ==
  [c \in {history[i].category : i \in 1..Len(history)} |->
     Cardinality({i \in 1..Len(history) : history[i].category = c})]

getCategoryCounts(history) ==
  getCategoryCountsFrom(
    [typescript |-> 0, svelte |-> 0, vite |-> 0, network |-> 0, build |-> 0,
     runtime |-> 0, accessibility |-> 0, unknown |-> 0], history, 1)

\* counts[error.file] = (counts[error.file] || 0) + 1 for every record with a
\* truthy file, from the empty object
RECURSIVE getFileCountsFrom(_, _, _)
getFileCountsFrom(counts, history, i) ==
  IF i > Len(history) THEN counts
  ELSE LET error == history[i]
       IN IF "file" \in DOMAIN error /\ error.file # ""
            THEN getFileCountsFrom(
                   [f \in DOMAIN counts \cup {error.file} |->
                      (IF f \in DOMAIN counts THEN counts[f] ELSE 0)
                      + (IF f = error.file THEN 1 ELSE 0)],
                   history, i + 1)
            ELSE getFileCountsFrom(counts, history, i + 1)

getFileCounts(history) == getFileCountsFrom([f \in {} |-> 0], history, 1)

\* mutant of clearHistory: the array is cut to its newest record, not emptied
clearHistoryKeepNewest(self) ==
  IF self.errorHistory = <<>> THEN self
  ELSE [self EXCEPT !.errorHistory = <<self.errorHistory[1]>>]

\* clearHistory, for a parser self = [patterns, errorHistory, historyLimit]
clearHistory(self) == [self EXCEPT !.errorHistory = <<>>]

(***************************************************************************)
(* FileWatcher (src/src/file-watcher.ts).  A time is a number of           *)
(* milliseconds.  A confidence c is held as the integer                    *)
(* c * 100 * correlationWindow, in which every term of calculateConfidence *)
(* is whole: the sums and comparisons are those of the real numbers, and   *)
(* the rounding of the floating-point sums is left out.                    *)
(***************************************************************************)
\* the integer that holds the confidence 1.0
ConfidenceOne(window) == 100 * window

UpperCase == "ABCDEFGHIJKLMNOPQRSTUVWXYZ"
LowerCase == "abcdefghijklmnopqrstuvwxyz"

\* String.prototype.toLowerCase
RECURSIVE ToLowerCase(_)
ToLowerCase(s) ==
  IF s = "" THEN ""
  ELSE LET c == CharAt(s, 1)
           up == {i \in 1..Len(UpperCase) : CharAt(UpperCase, i) = c}
       IN (IF up = {} THEN c ELSE CharAt(LowerCase, CHOOSE i \in up : TRUE))
          \o ToLowerCase(SubSeq(s, 2, Len(s)))

\* s.replace(/\\/g, '/')
RECURSIVE ReplaceBackslashes(_)
ReplaceBackslashes(s) ==
  IF s = "" THEN ""
  ELSE (IF CharAt(s, 1) = "\\" THEN "/" ELSE CharAt(s, 1))
       \o ReplaceBackslashes(SubSeq(s, 2, Len(s)))

\* s.split(sep) for a separator of one character, from index i on with
\* the part read so far
RECURSIVE SplitFrom(_, _, _, _)
SplitFrom(s, sep, i, part) ==
  IF i > Len(s) THEN <<part>>
  ELSE IF CharAt(s, i) = sep THEN <<part>> \o SplitFrom(s, sep, i + 1, "")
  ELSE SplitFrom(s, sep, i + 1, part \o CharAt(s, i))

Split(s, sep) == SplitFrom(s, sep, 1, "")

\* parts.join(sep)
RECURSIVE Join(_, _)
Join(parts, sep) ==
  IF Len(parts) = 0 THEN ""
  ELSE IF Len(parts) = 1 THEN parts[1]
  ELSE parts[1] \o sep \o Join(Tail(parts), sep)

\* s.includes(t)
Includes(s, t) == \E i \in 1..(Len(s) + 1) : OccursAt(s, t, i)

normalize(p) == ToLowerCase(ReplaceBackslashes(p))

pathsAreRelated(path1, path2) ==
  LET parts1 == Split(normalize(path1), "/")
      parts2 == Split(normalize(path2), "/")
      filename1 == Split(parts1[Len(parts1)], ".")[1]
      filename2 == Split(parts2[Len(parts2)], ".")[1]
      dir1 == Join(SubSeq(parts1, 1, Len(parts1) - 1), "/")
      dir2 == Join(SubSeq(parts2, 1, Len(parts2) - 1), "/")
  IN IF filename1 # "" /\ filename2 # "" /\ filename1 = filename2 THEN TRUE
     ELSE Includes(dir1, dir2) \/ Includes(dir2, dir1)

\* pathsAreRelated is a function of the two paths alone: its values for the
\* paths of the changes and the files of the records are tabulated once
WatchedPaths == {event.path : event \in ChangeEvents}

WatchedFiles == {"App.svelte", "src/App.svelte"}

relatedTable ==
  [a \in WatchedPaths \X WatchedFiles |-> pathsAreRelated(a[1], a[2])] @@ <<>>

related(path1, path2) ==
  IF path1 \in WatchedPaths /\ path2 \in WatchedFiles
    THEN relatedTable[<<path1, path2>>]
    ELSE pathsAreRelated(path1, path2)

\* mutant of trimRecentChanges: the cutoff is one window back, not two
trimRecentChangesOneWindow(changes, time, window) ==
  SelectSeq(changes, LAMBDA change : change.timestamp > time - window)

\* trimRecentChanges at the time Date.now() reads
trimRecentChanges(changes, time, window) ==
  LET cutoff == time - window * 2
  IN SelectSeq(changes, LAMBDA change : change.timestamp > cutoff)

\* handleFileChange: the list it leaves (the 'file-change' event it emits
\* has a listener that does nothing)
handleFileChange(changes, path, type, time, window) ==
  LET change == [path |-> path, type |-> type, timestamp |-> time]
  IN trimRecentChanges(<<change>> \o changes, time, window)

\* mutant of isRelatedError: an error from before the change is not left out
isRelatedErrorAnyOrder(change, error, window) ==
  LET errorTimeDiff == error.timestamp - change.timestamp
  IN IF errorTimeDiff > window THEN FALSE
     ELSE IF "file" \in DOMAIN error /\ error.file # ""
       THEN \/ error.file = change.path
            \/ EndsWith(error.file, change.path)
            \/ EndsWith(change.path, error.file)
            \/ related(change.path, error.file)
       ELSE FALSE

\* the filter of correlateErrors: the error belongs to the change
isRelatedError(change, error, window) ==
  LET errorTimeDiff == error.timestamp - change.timestamp
  IN IF errorTimeDiff < 0 \/ errorTimeDiff > window THEN FALSE
     ELSE IF "file" \in DOMAIN error /\ error.file # ""
       THEN \/ error.file = change.path
            \/ EndsWith(error.file, change.path)
            \/ EndsWith(change.path, error.file)
            \/ related(change.path, error.file)
       ELSE FALSE

\* the direct matches of calculateConfidence
directMatches(change, errors) ==
  SelectSeq(errors, LAMBDA error :
    /\ "file" \in DOMAIN error
    /\ error.file # ""
    /\ (error.file = change.path \/ EndsWith(change.path, error.file)))

Min(a, b) == IF a < b THEN a ELSE b
Max(a, b) == IF a > b THEN a ELSE b

\* mutant of calculateConfidence: the bonus for the errors shrinks with
\* their number
calculateConfidenceFewer(change, errors, time, window) ==
  LET base == 50 * window
      direct == IF Len(directMatches(change, errors)) > 0 THEN 30 * window ELSE 0
      timeBonus == Max(0, 20 * (window - (time - change.timestamp)))
      errorBonus == Max(0, 20 * window - Len(errors) * 5 * window)
      critical ==
        IF Len(SelectSeq(errors, LAMBDA error : error.severity = "critical")) > 0
          THEN 10 * window ELSE 0
  IN Min(ConfidenceOne(window), base + direct + timeBonus + errorBonus + critical)

\* mutant of calculateConfidence: the bonus for a direct match is missing
calculateConfidenceNoDirect(change, errors, time, window) ==
  LET base == 50 * window
      timeBonus == Max(0, 20 * (window - (time - change.timestamp)))
      errorBonus == Min(20 * window, Len(errors) * 5 * window)
      critical ==
        IF Len(SelectSeq(errors, LAMBDA error : error.severity = "critical")) > 0
          THEN 10 * window ELSE 0
  IN Min(ConfidenceOne(window), base + timeBonus + errorBonus + critical)

\* mutant of calculateConfidence: the bonus for a critical error is missing
calculateConfidenceNoCritical(change, errors, time, window) ==
  LET base == 50 * window
      direct == IF Len(directMatches(change, errors)) > 0 THEN 30 * window ELSE 0
      timeBonus == Max(0, 20 * (window - (time - change.timestamp)))
      errorBonus == Min(20 * window, Len(errors) * 5 * window)
  IN Min(ConfidenceOne(window), base + direct + timeBonus + errorBonus)

\* mutant of calculateConfidence: the bonus for a critical error is 0.01
calculateConfidenceSmallCritical(change, errors, time, window) ==
  LET base == 50 * window
      direct == IF Len(directMatches(change, errors)) > 0 THEN 30 * window ELSE 0
      timeBonus == Max(0, 20 * (window - (time - change.timestamp)))
      errorBonus == Min(20 * window, Len(errors) * 5 * window)
      critical ==
        IF Len(SelectSeq(errors, LAMBDA error : error.severity = "critical")) > 0
          THEN window ELSE 0
  IN Min(ConfidenceOne(window), base + direct + timeBonus + errorBonus + critical)

\* mutant of calculateConfidence: the sum is returned as it is, not clamped
calculateConfidenceNoClamp(change, errors, time, window) ==
  LET base == 50 * window
      direct == IF Len(directMatches(change, errors)) > 0 THEN 30 * window ELSE 0
      timeBonus == Max(0, 20 * (window - (time - change.timestamp)))
      errorBonus == Min(20 * window, Len(errors) * 5 * window)
      critical ==
        IF Len(SelectSeq(errors, LAMBDA error : error.severity = "critical")) > 0
          THEN 10 * window ELSE 0
  IN base + direct + timeBonus + errorBonus + critical

\* calculateConfidence at the time Date.now() reads: 0.5, + 0.3 for a
\* direct match, + Math.max(0, 1 - timeSinceChange / window) * 0.2,
\* + Math.min(0.2, errors.length * 0.05), + 0.1 for a critical error, and
\* Math.min(1.0, confidence)
calculateConfidence(change, errors, time, window) ==
  LET base == 50 * window
      direct == IF Len(directMatches(change, errors)) > 0 THEN 30 * window ELSE 0
      timeSinceChange == time - change.timestamp
      timeBonus == Max(0, 20 * (window - timeSinceChange))
      errorBonus == Min(20 * window, Len(errors) * 5 * window)
      critical ==
        IF Len(SelectSeq(errors, LAMBDA error : error.severity = "critical")) > 0
          THEN 10 * window ELSE 0
  IN Min(ConfidenceOne(window), base + direct + timeBonus + errorBonus + critical)

\* mutant of sortByConfidence: an element goes before the elements equal to
\* it (the sort is not stable)
RECURSIVE sortByConfidenceUnstable(_)
sortByConfidenceUnstable(correlations) ==
  IF Len(correlations) <= 1 THEN correlations
  ELSE LET last == correlations[Len(correlations)]
           sorted == sortByConfidenceUnstable(SubSeq(correlations, 1, Len(correlations) - 1))
           before == SelectSeq(sorted, LAMBDA c : c.confidence > last.confidence)
           after == SelectSeq(sorted, LAMBDA c : c.confidence <= last.confidence)
       IN before \o <<last>> \o after

\* Array.prototype.sort with (a, b) => b.confidence - a.confidence: the
\* stable sort by descending confidence, as an insertion of each element
\* after the elements that are not below it
RECURSIVE sortByConfidence(_)
sortByConfidence(correlations) ==
  IF Len(correlations) <= 1 THEN correlations
  ELSE LET last == correlations[Len(correlations)]
           sorted == sortByConfidence(SubSeq(correlations, 1, Len(correlations) - 1))
           before == SelectSeq(sorted, LAMBDA c : c.confidence >= last.confidence)
           after == SelectSeq(sorted, LAMBDA c : c.confidence < last.confidence)
       IN before \o <<last>> \o after

\* mutant of correlationsFrom: the test of the change's age is missing
RECURSIVE correlationsFromAnyAge(_, _, _, _, _)
correlationsFromAnyAge(changes, i, errors, time, window) ==
  IF i > Len(changes) THEN <<>>
  ELSE LET change == changes[i]
           rest == correlationsFromAnyAge(changes, i + 1, errors, time, window)
           relatedErrors ==
             SelectSeq(errors, LAMBDA error : isRelatedError(change, error, window))
       IN IF Len(relatedErrors) > 0
            THEN <<[fileChange |-> change,
                    errors |-> relatedErrors,
                    confidence |->
                      calculateConfidence(change, relatedErrors, time, window)]>> \o rest
            ELSE rest

\* the loop of correlateErrors from change i on: the correlations pushed
RECURSIVE correlationsFrom(_, _, _, _, _)
correlationsFrom(changes, i, errors, time, window) ==
  IF i > Len(changes) THEN <<>>
  ELSE LET change == changes[i]
           timeDiff == time - change.timestamp
           rest == correlationsFrom(changes, i + 1, errors, time, window)
           relatedErrors ==
             SelectSeq(errors, LAMBDA error : isRelatedError(change, error, window))
       IN IF timeDiff > window THEN rest
          ELSE IF Len(relatedErrors) > 0
            THEN <<[fileChange |-> change,
                    errors |-> relatedErrors,
                    confidence |->
                      calculateConfidence(change, relatedErrors, time, window)]>> \o rest
            ELSE rest

correlateErrors(changes, errors, time, window) ==
  sortByConfidence(correlationsFrom(changes, 1, errors, time, window))

getRecentChanges(changes, limit) == SubSeq(changes, 1, Min(limit, Len(changes)))

\* the default of watch_for_errors' recentMinutes
DefaultRecentMinutes == 5

\* watch_for_errors: the errors it hands to correlateErrors
recentErrors(history, time, recentMinutes) ==
  LET cutoffTime == time - recentMinutes * 60 * 1000
  IN SelectSeq(getHistory(history), LAMBDA error : error.timestamp >= cutoffTime)

(***************************************************************************)
(* The get_error_history tool (src/unnamed/part_007).  Its arguments are   *)
(* a record with the optional fields severity, category, limit and since;  *)
(* the handler's result is the list of records its text shows.             *)
(***************************************************************************)
\* array.slice(0, end): a negative end counts from the end of the array
SliceTo(array, end) ==
  LET len == Len(array)
      final == IF end < 0 THEN (IF len + end < 0 THEN 0 ELSE len + end)
               ELSE IF end > len THEN len ELSE end
  IN SubSeq(array, 1, final)

\* Date.prototype.toISOString for a time of the model's clock, which runs
\* through the first hour of 1970-01-01 UTC
IsoString(time) ==
  LET minutes == time \div 60000
      seconds == (time \div 1000) % 60
      millis == time % 1000
      digit(n) == CHOOSE d \in Digits : DigitValue(d) = n
  IN "1970-01-01T00:" \o digit(minutes \div 10) \o digit(minutes % 10) \o ":"
       \o digit(seconds \div 10) \o digit(seconds % 10) \o "."
       \o digit(millis \div 100) \o digit((millis \div 10) % 10) \o digit(millis % 10)
       \o "Z"

\* new Date(str).getTime(), <<>> standing for NaN (an Invalid Date), for
\* strings of the form 1970-01-01THH:MM:SS.mmmZ and for strings that are
\* no date in any form
DateParse(str) ==
  LET digits(from, to) == \A i \in from..to : CharAt(str, i) \in Digits
      hours == DecimalValue(SubSeq(str, 12, 13))
      minutes == DecimalValue(SubSeq(str, 15, 16))
      seconds == DecimalValue(SubSeq(str, 18, 19))
      millis == DecimalValue(SubSeq(str, 21, 23))
  IN IF /\ Len(str) = 24
        /\ SubSeq(str, 1, 11) = "1970-01-01T"
        /\ digits(12, 13) /\ CharAt(str, 14) = ":"
        /\ digits(15, 16) /\ CharAt(str, 17) = ":"
        /\ digits(18, 19) /\ CharAt(str, 20) = "."
        /\ digits(21, 23) /\ CharAt(str, 24) = "Z"
        /\ hours < 24 /\ minutes < 60 /\ seconds < 60
       THEN <<((hours * 60 + minutes) * 60 + seconds) * 1000 + millis>>
       ELSE <<>>

\* the limit of a query that names none
DefaultLimit == 50

\* the handler of get_error_history, up to errors.slice(0, limit)
getErrorHistory(history, args) ==
  LET limit == IF "limit" \in DOMAIN args /\ args.limit # 0 THEN args.limit ELSE DefaultLimit
      bySeverity ==
        IF "severity" \in DOMAIN args /\ args.severity # ""
          THEN SelectSeq(getHistory(history), LAMBDA error : error.severity = args.severity)
          ELSE getHistory(history)
      byCategory ==
        IF "category" \in DOMAIN args /\ args.category # ""
          THEN SelectSeq(bySeverity, LAMBDA error : error.category = args.category)
          ELSE bySeverity
      bySince ==
        IF "since" \in DOMAIN args /\ args.since # ""
          THEN LET sinceDate == DateParse(args.since)
               IN SelectSeq(byCategory, LAMBDA error :
                    sinceDate # <<>> /\ error.timestamp >= sinceDate[1])
          ELSE byCategory
  IN SliceTo(bySince, limit)

(***************************************************************************)
(* The configuration (src/unnamed/part_001: ConfigSchema, and loadConfig   *)
(* of src/dist/server.js).  A parse is [ok, value]: ok is FALSE when the   *)
(* schema, or new RegExp in its transform, throws.                         *)
(***************************************************************************)
\* The syntax check of new RegExp(str, 'gm') from character i on: depth is
\* the number of open groups, inClass tells a character class is open,
\* canRepeat that a quantifier may follow.  A SyntaxError is thrown for an
\* unterminated group or class, an unmatched ), a \ at the end and a
\* quantifier with nothing to repeat.
RECURSIVE ValidSyntaxFrom(_, _, _, _, _)
ValidSyntaxFrom(str, i, depth, inClass, canRepeat) ==
  IF i > Len(str) THEN depth = 0 /\ ~inClass
  ELSE LET c == CharAt(str, i)
           next == IF i < Len(str) THEN CharAt(str, i + 1) ELSE ""
       IN CASE c = "\\" ->
                 IF i = Len(str) THEN FALSE
                 ELSE ValidSyntaxFrom(str, i + 2, depth, inClass, TRUE)
            [] c # "\\" /\ inClass ->
                 ValidSyntaxFrom(str, i + 1, depth, c # "]", c = "]")
            [] c = "[" /\ ~inClass ->
                 ValidSyntaxFrom(str, i + 1, depth, TRUE, FALSE)
            [] c = "(" /\ ~inClass ->
                 IF next = "?"
                   THEN ValidSyntaxFrom(str, i + 3, depth + 1, FALSE, FALSE)
                   ELSE ValidSyntaxFrom(str, i + 1, depth + 1, FALSE, FALSE)
            [] c = ")" /\ ~inClass ->
                 IF depth = 0 THEN FALSE
                 ELSE ValidSyntaxFrom(str, i + 1, depth - 1, FALSE, TRUE)
            [] c \in {"+", "*", "?"} /\ ~inClass ->
                 IF ~canRepeat THEN FALSE
                 ELSE ValidSyntaxFrom(str, IF next = "?" THEN i + 2 ELSE i + 1,
                                      depth, FALSE, FALSE)
            [] c = "|" /\ ~inClass ->
                 ValidSyntaxFrom(str, i + 1, depth, FALSE, FALSE)
            [] OTHER ->
                 ValidSyntaxFrom(str, i + 1, depth, FALSE, TRUE)

ValidSyntax(str) == ValidSyntaxFrom(str, 1, 0, FALSE, FALSE)

\* new RegExp(str, 'gm') for a text that is a regular expression: a new
\* object with the atoms the text spells and lastIndex 0
Compile(str) ==
  LET re == CHOOSE r \in RegExps : r.source = str
  IN RegExp(str, re.atoms, re.groups)

\* LogPatternSchema.parse: the pattern text becomes a RegExp; category and
\* severity are of their enums; every extract index is a number or not
\* set, and a rule without extract gets the empty map
LogPatternSchema(raw) ==
  IF \/ raw.category \notin Categories
     \/ raw.severity \notin Severities
     \/ ~ValidSyntax(raw.pattern)
    THEN [ok |-> FALSE]
    ELSE [ok |-> TRUE,
          value |-> LogPattern(raw.name, Compile(raw.pattern), raw.category, raw.severity,
                               IF "extract" \in DOMAIN raw THEN raw.extract
                               ELSE [field \in {} |-> 0])]

\* the defaults of ConfigSchema.historyLimit and its bounds
DefaultHistoryLimit == 1000
MinHistoryLimit == 10
MaxHistoryLimit == 10000
\* the bounds of ConfigSchema.correlationWindow
MinWindow == 1000
MaxWindow == 300000

\* ConfigSchema.parse, for the keys the parser and the watcher read
ConfigSchema(raw) ==
  LET rules == IF "patterns" \in DOMAIN raw THEN raw.patterns ELSE <<>>
      results == [i \in 1..Len(rules) |-> LogPatternSchema(rules[i])]
      limit == IF "historyLimit" \in DOMAIN raw THEN raw.historyLimit
               ELSE DefaultHistoryLimit
      window == IF "correlationWindow" \in DOMAIN raw THEN raw.correlationWindow
                ELSE DefaultWindow
  IN IF \/ \E i \in 1..Len(rules) : ~results[i].ok
        \/ limit < MinHistoryLimit \/ limit > MaxHistoryLimit
        \/ window < MinWindow \/ window > MaxWindow
       THEN [ok |-> FALSE]
       ELSE [ok |-> TRUE,
             value |-> [patterns |-> [i \in 1..Len(rules) |-> results[i].value],
                        historyLimit |-> limit,
                        correlationWindow |-> window]]

\* defaultPatternsForConfig: the built-in rules with the text of their
\* patterns
defaultPatternsForConfig == [i \in 1..Len(defaultPatterns) |-> RawRule(defaultPatterns[i])]

\* the configuration the constructor of the server parses
constructorConfig == ConfigSchema([patterns |-> defaultPatternsForConfig]).value

\* what ProcessMonitor holds of a configuration
configOf(config) ==
  [rules |-> [i \in 1..Len(config.patterns) |-> config.patterns[i].name],
   historyLimit |-> config.historyLimit,
   correlationWindow |-> config.correlationWindow]

\* mutant of loadConfig: a file that does not parse ends the search
RECURSIVE loadConfigStopsAtFailure(_, _, _)
loadConfigStopsAtFailure(config, files, k) ==
  IF k > Len(files) THEN [loaded |-> 0, config |-> config]
  ELSE LET rawConfig == files[k]
           merged == [patterns |->
                        defaultPatternsForConfig \o
                        (IF "patterns" \in DOMAIN rawConfig THEN rawConfig.patterns ELSE <<>>)]
                     @@ rawConfig
           r == ConfigSchema(merged)
       IN IF r.ok THEN [loaded |-> k, config |-> r.value]
          ELSE [loaded |-> 0, config |-> config]

\* mutant of loadConfigFrom: the rules of the file go before the built-in
\* rules
RECURSIVE loadConfigUserFirst(_, _, _)
loadConfigUserFirst(config, files, k) ==
  IF k > Len(files) THEN [loaded |-> 0, config |-> config]
  ELSE LET rawConfig == files[k]
           merged == [patterns |->
                        (IF "patterns" \in DOMAIN rawConfig THEN rawConfig.patterns ELSE <<>>)
                        \o defaultPatternsForConfig]
                     @@ rawConfig
           r == ConfigSchema(merged)
       IN IF r.ok THEN [loaded |-> k, config |-> r.value]
          ELSE loadConfigUserFirst(config, files, k + 1)

\* The loop of loadConfig from file k on, over the configuration files that
\* exist: [loaded, config] is the number of the file whose configuration
\* the components are updated with (0 when there is none) and this.config
\* when loadConfig returns.  A file that does not parse is logged and the
\* next one is tried.
RECURSIVE loadConfigFrom(_, _, _)
loadConfigFrom(config, files, k) ==
  IF k > Len(files) THEN [loaded |-> 0, config |-> config]
  ELSE LET rawConfig == files[k]
           merged == [patterns |->
                        defaultPatternsForConfig \o
                        (IF "patterns" \in DOMAIN rawConfig THEN rawConfig.patterns ELSE <<>>)]
                     @@ rawConfig
           r == ConfigSchema(merged)
       IN IF r.ok THEN [loaded |-> k, config |-> r.value]
          ELSE loadConfigFrom(config, files, k + 1)

(***************************************************************************)
(* ProcessMonitor's 'data' handlers (src/src/process-monitor.ts) and the   *)
(* server's 'log' listener with its error buffer (src/dist/server.js).     *)
(* emit calls the listener before it returns, so a 'data' handler runs     *)
(* the listener for each line it emits.  The server is the record          *)
(* [patterns, errorHistory, historyLimit, uuids, ret, logs, errorBuffer,   *)
(* detected, activeSSEConnections, received, broken]; ret is what the      *)
(* last call of parseLog returned.                                         *)
(***************************************************************************)
\* data.split('\n')
splitLines(data) ==
  LET breaks == {i \in 1..Len(data) : CharAt(data, i) = "\n"}
      n == Cardinality(breaks)
      at(k) == IF k = 0 THEN 0
               ELSE IF k > n THEN Len(data) + 1
               ELSE CHOOSE b \in breaks : Cardinality({c \in breaks : c <= b}) = k
  IN [k \in 1..(n + 1) |-> SubSeq(data, at(k - 1) + 1, at(k) - 1)]

\* data.split('\n').filter(line => line.trim())
dataLines(data) == SelectSeq(splitLines(data), LAMBDA line : Trim(line) # "")

maxBufferSize == 50
bufferRetentionMs == 5 * 60 * 1000

\* the notification broadcastErrorToSSEClients builds, as JSON carries it:
\* a field of the error that is undefined is left out (rawLog always is,
\* no record has it), and processInfo, the same for all notifications of a
\* run, is not held
Notification(error, errorCounts) ==
  [jsonrpc |-> "2.0",
   method |-> "notifications/devserver/error_detected",
   params |->
     [error |->
        [field \in DOMAIN error \cap
                    {"severity", "category", "message", "file", "line", "column"} |->
           error[field]]
          @@ [timestamp |-> IsoString(error.timestamp)],
      context |-> [isRunning |-> TRUE, errorCounts |-> errorCounts]]]

\* mutant of addToErrorBuffer: slice(0, maxBufferSize) keeps the oldest
addToErrorBufferOldest(buffer, notification, timestamp) ==
  LET pushed == Append(buffer, [notification |-> notification, timestamp |-> timestamp])
      cutoff == timestamp - bufferRetentionMs
      kept == SelectSeq(pushed, LAMBDA item : item.timestamp > cutoff)
  IN IF Len(kept) > maxBufferSize THEN SubSeq(kept, 1, maxBufferSize) ELSE kept

\* addToErrorBuffer at the time timestamp = Date.now()
addToErrorBuffer(buffer, notification, timestamp) ==
  LET pushed == Append(buffer, [notification |-> notification, timestamp |-> timestamp])
      cutoff == timestamp - bufferRetentionMs
      kept == SelectSeq(pushed, LAMBDA item : item.timestamp > cutoff)
  IN IF Len(kept) > maxBufferSize
       THEN SubSeq(kept, Len(kept) - maxBufferSize + 1, Len(kept))
       ELSE kept

\* mutant of broadcastErrorToSSEClients: a send that throws ends the loop,
\* and the connections after it get nothing
broadcastStopsAtFailure(self, error, time) ==
  LET notification == Notification(error, getErrorCounts(self.errorHistory))
      thrown == {c \in self.activeSSEConnections :
                   c \in DOMAIN self.broken /\ self.broken[c] = "throws"}
  IN [self EXCEPT
        !.errorBuffer = addToErrorBuffer(self.errorBuffer, notification, time),
        !.detected = Append(self.detected, notification),
        !.activeSSEConnections = self.activeSSEConnections \ thrown,
        !.received = [c \in DOMAIN self.received |->
                        IF /\ c \in self.activeSSEConnections
                           /\ c \notin DOMAIN self.broken
                           /\ thrown = {}
                          THEN Append(self.received[c], notification)
                          ELSE self.received[c]]]

\* broadcastErrorToSSEClients: transport.send writes to a connection of the
\* set that has not failed; a send that throws takes its connection out of
\* the set, and the loop goes on with the next connection
broadcastErrorToSSEClients(self, error, time) ==
  LET notification == Notification(error, getErrorCounts(self.errorHistory))
      thrown == {c \in self.activeSSEConnections :
                   c \in DOMAIN self.broken /\ self.broken[c] = "throws"}
  IN [self EXCEPT
        !.errorBuffer = addToErrorBuffer(self.errorBuffer, notification, time),
        !.detected = Append(self.detected, notification),
        !.activeSSEConnections = self.activeSSEConnections \ thrown,
        !.received = [c \in DOMAIN self.received |->
                        IF c \in self.activeSSEConnections /\ c \notin DOMAIN self.broken
                          THEN Append(self.received[c], notification)
                          ELSE self.received[c]]]

\* the 'log' listener of the server once parseLog has returned r
afterParseLog(self, r, time) ==
  IF r.ret = Null
    THEN [self EXCEPT !.patterns = r.patterns, !.errorHistory = r.errorHistory,
                      !.ret = r.ret]
    ELSE broadcastErrorToSSEClients(
           [self EXCEPT !.patterns = r.patterns, !.errorHistory = r.errorHistory,
                        !.ret = r.ret, !.uuids = self.uuids + 1],
           r.ret, time)

\* the 'log' listener of the server
logListener(self, line, time) ==
  afterParseLog(self,
                parseLog([patterns |-> self.patterns, errorHistory |-> self.errorHistory,
                          historyLimit |-> self.historyLimit], line, self.uuids + 1, time),
                time)

\* for (const line of lines) this.emit('log', line, source), from line i on:
\* emitNext goes on with the lines after line i once the listener has
\* returned the server listened for it (no identifier is taken back)
RECURSIVE emitLogs(_, _, _, _, _)
RECURSIVE emitNext(_, _, _, _, _, _)
emitNext(self, listened, lines, i, source, time) ==
  IF listened.uuids >= self.uuids
    THEN emitLogs(listened, lines, i + 1, source, time)
    ELSE listened

emitLogs(self, lines, i, source, time) ==
  IF i > Len(lines) THEN self
  ELSE emitNext(self,
                logListener([self EXCEPT !.logs = Append(self.logs,
                                                         [line |-> lines[i], source |-> source])],
                            lines[i], time),
                lines, i, source, time)

\* the 'data' handler of a stream
onData(self, data, source, time) == emitLogs(self, dataLines(data), 1, source, time)

\* the delay of the timer that calls sendBufferedErrors, in milliseconds
TimerDelay == 100

\* sendBufferedErrors(transport): what the connection has carried after
\* it; open tells that it has neither closed nor failed (the first send
\* that throws ends the loop)
sendBufferedErrors(buffer, sent, open) ==
  IF open THEN sent \o [i \in 1..Len(buffer) |-> buffer[i].notification] ELSE sent

(***************************************************************************)
(* ProcessMonitor's child (src/src/process-monitor.ts).  The monitor is    *)
(* [process, processInfo, children, killTimers, events].  A ChildProcess   *)
(* is [pid, killed, closed, signals]: pid tells that spawn gave it a pid,  *)
(* killed is its property of that name (kill() sets it when it has sent a  *)
(* signal), closed tells that its 'close' event was emitted, signals are   *)
(* the signals sent to it.                                                 *)
(***************************************************************************)
\* the delay of the force-kill timer, in milliseconds
KillDelay == 5000

\* child.kill(signal): the signal is sent when the child has a process
\* that has not ended, and killed is set then
kill(self, child, signal) ==
  IF self.children[child].pid /\ ~self.children[child].closed
    THEN [self EXCEPT !.children[child].signals = Append(@, signal),
                      !.children[child].killed = TRUE]
    ELSE self

\* stopMonitoring at the time given
stopMonitoring(self, time) ==
  IF self.process # 0
    THEN [kill(self, self.process, "SIGTERM") EXCEPT
            !.killTimers = Append(@, [due |-> time + KillDelay, child |-> self.process])]
    ELSE self

\* the callback of the timer stopMonitoring sets
forceKill(self) ==
  IF self.process # 0 /\ ~self.children[self.process].killed
    THEN kill(self, self.process, "SIGKILL")
    ELSE self

\* startMonitoring(command, args, cwd) with a command; hasPid tells that
\* spawn returns a child with a pid
startMonitoring(self, hasPid, time) ==
  LET stopped == IF self.process # 0 THEN stopMonitoring(self, time) ELSE self
      child == Len(self.children) + 1
      spawned == [stopped EXCEPT
                    !.children = Append(@, [pid |-> hasPid, killed |-> FALSE,
                                            closed |-> FALSE, signals |-> <<>>]),
                    !.process = child]
  IN IF hasPid
       THEN [spawned EXCEPT
               !.processInfo = <<[pid |-> child, startTime |-> time, status |-> "running"]>>,
               !.events = Append(@, "process-start")]
       ELSE [spawned EXCEPT !.events = Append(@, "error")]

\* the 'close' handler setupProcessHandlers has set for a child
closeHandler(self, child) ==
  [self EXCEPT !.children[child].closed = TRUE,
               !.events = Append(@, "process-exit"),
               !.process = 0,
               !.processInfo = <<>>]

isRunning(self) == self.process # 0 /\ ~self.children[self.process].killed

getProcessInfo(self) == self.processInfo

\* getUptime at the time given, <<>> for null
getUptime(self, time) ==
  IF self.processInfo = <<>> \/ ~isRunning(self) THEN <<>>
  ELSE <<time - self.processInfo[1].startTime>>

(***************************************************************************)
(* The shared state file (src/unnamed/part_006).  The manager is           *)
(* [stateFile, state, writing, reading].  An error of the state is [id,    *)
(* timestamp] with the time as a number; the file holds what JSON.stringify *)
(* makes of it, the time as text, and JSON.parse gives that text back.     *)
(***************************************************************************)
\* the milliseconds between two heartbeats
HeartbeatInterval == 25000

\* JSON.stringify(this.state, null, 2) read back: a Date becomes its ISO
\* text
stringify(value) ==
  [value EXCEPT !.errors =
     [i \in 1..Len(value.errors) |->
        [value.errors[i] EXCEPT !.timestamp = IsoString(@)]]]

\* writeState(state) up to its await: this.state is merged and the write
\* of the file starts
writeState(self, partial, time) ==
  LET merged == [lastUpdate |-> time] @@ partial @@ self.state
  IN [self EXCEPT !.state = merged,
                  !.writing = Append(@, [content |-> stringify(merged),
                                         by |-> "writeState"])]

\* updateHeartbeat from the completion of its readFile on: what was read
\* is parsed (neither JSON.parse nor JSON.stringify changes texts and
\* numbers), lastUpdate is set, and the write of the file starts
updateHeartbeat(self, time) ==
  [self EXCEPT !.reading = @ - 1,
               !.writing = Append(@, [content |-> [self.stateFile[1] EXCEPT
                                                     !.lastUpdate = time],
                                      by |-> "updateHeartbeat"])]

\* updateSharedState: what the server hands writeState when error n has
\* been detected at the time given
sharedData(self, time) ==
  LET n == Len(self.state.errors) + 1
  IN [processInfo |-> <<[pid |-> 1, status |-> "running"]>>,
      isRunning |-> TRUE,
      errors |-> Append(self.state.errors, [id |-> n, timestamp |-> time]),
      errorCounts |-> [critical |-> n, warning |-> 0, info |-> 0]]

(***************************************************************************)
(* The operations.                                                         *)
(***************************************************************************)
\* the monitored process has written nothing, and the server of
\* src/dist/server.js has its initial fields: no error is buffered and no
\* client has connected
Started ==
  /\ pipe = [source \in Streams |-> ""]
  /\ written = [source \in Streams |-> <<>>]
  /\ logs = <<>>
  /\ chunks = 0
  /\ process = 0
  /\ processInfo = <<>>
  /\ children = <<>>
  /\ killTimers = <<>>
  /\ events = <<>>
  /\ monitorConfig = configOf(constructorConfig)
  /\ errorBuffer = <<>>
  /\ detected = <<>>
  /\ activeSSEConnections = {}
  /\ timers = <<>>
  /\ received = <<>>
  /\ broken = <<>>
  /\ stateFile = <<>>
  /\ state = [processInfo |-> <<>>, isRunning |-> FALSE, errors |-> <<>>,
              errorCounts |-> [critical |-> 0, warning |-> 0, info |-> 0],
              lastUpdate |-> 0]
  /\ writing = <<>>
  /\ reading = 0

\* new LogParser(config)
Init ==
  \E config \in Configs :
    /\ patterns = config.patterns
    /\ historyLimit = config.historyLimit
    /\ errorHistory = <<>>
    /\ now = 0
    /\ uuids = 0
    /\ call = [op |-> "constructor"]
    /\ ret = Undefined
    /\ parsed = 0
    /\ limitKept = TRUE
    /\ dropped = 0
    /\ recentChanges = <<>>
    /\ correlationWindow = DefaultWindow
    /\ Started

ParseLog(logLine) ==
  /\ uuids < MaxParses
  /\ \E r \in {parseLog([patterns |-> patterns, errorHistory |-> errorHistory,
                         historyLimit |-> historyLimit], logLine, uuids + 1, now)} :
       /\ patterns' = r.patterns
       /\ errorHistory' = r.errorHistory
       /\ ret' = r.ret
       /\ uuids' = IF r.ret = Null THEN uuids ELSE uuids + 1
       /\ parsed' = IF r.ret = Null THEN parsed ELSE parsed + 1
       /\ dropped' = Len(errorHistory) + (IF r.ret = Null THEN 0 ELSE 1)
                       - Len(r.errorHistory)
  /\ call' = [op |-> "parseLog", logLine |-> logLine]
  /\ UNCHANGED <<historyLimit, now, limitKept>>
  /\ UNCHANGED watcherVars
  /\ UNCHANGED monitorVars
  /\ UNCHANGED serverVars

\* mutant of UpdateConfig: the call of trimHistory is missing
UpdateConfigNoTrim(config) ==
  /\ patterns' = config.patterns
  /\ historyLimit' = config.historyLimit
  /\ errorHistory' = errorHistory
  /\ call' = [op |-> "updateConfig"]
  /\ ret' = Undefined
  /\ limitKept' = (parsed = 0 \/ (limitKept /\ config.historyLimit = historyLimit))
  /\ dropped' = 0
  /\ UNCHANGED <<now, uuids, parsed>>
  /\ UNCHANGED watcherVars
  /\ UNCHANGED monitorVars
  /\ UNCHANGED serverVars

UpdateConfig(config) ==
  /\ patterns' = config.patterns
  /\ historyLimit' = config.historyLimit
  /\ errorHistory' = trimHistory(errorHistory, config.historyLimit)
  /\ dropped' = Len(errorHistory) - Len(errorHistory')
  /\ call' = [op |-> "updateConfig"]
  /\ ret' = Undefined
  /\ limitKept' = (parsed = 0 \/ (limitKept /\ config.historyLimit = historyLimit))
  /\ UNCHANGED <<now, uuids, parsed>>
  /\ UNCHANGED watcherVars
  /\ UNCHANGED monitorVars
  /\ UNCHANGED serverVars

ClearHistory ==
  /\ \E r \in {clearHistory([patterns |-> patterns, errorHistory |-> errorHistory,
                              historyLimit |-> historyLimit])} :
       /\ patterns' = r.patterns
       /\ errorHistory' = r.errorHistory
       /\ historyLimit' = r.historyLimit
  /\ call' = [op |-> "clearHistory"]
  /\ ret' = Undefined
  /\ parsed' = 0
  /\ limitKept' = TRUE
  /\ dropped' = Len(errorHistory) - Len(errorHistory')
  /\ UNCHANGED <<now, uuids>>
  /\ UNCHANGED watcherVars
  /\ UNCHANGED monitorVars
  /\ UNCHANGED serverVars

Next ==
  \/ \E logLine \in Lines : ParseLog(logLine)
  \/ \E config \in Configs : UpdateConfig(config)
  \/ ClearHistory

Spec == Init /\ [][Next]_vars

\* the server, as its handlers find it
Server ==
  [patterns |-> patterns, errorHistory |-> errorHistory, historyLimit |-> historyLimit,
   uuids |-> uuids, ret |-> ret, logs |-> logs, errorBuffer |-> errorBuffer,
   detected |-> detected, activeSSEConnections |-> activeSSEConnections,
   received |-> received, broken |-> broken]

\* the server is r when a handler returns
Becomes(r) ==
  /\ patterns' = r.patterns
  /\ errorHistory' = r.errorHistory
  /\ uuids' = r.uuids
  /\ ret' = r.ret
  /\ logs' = r.logs
  /\ errorBuffer' = r.errorBuffer
  /\ detected' = r.detected
  /\ received' = r.received
  /\ activeSSEConnections' = r.activeSSEConnections
  /\ parsed' = parsed + (r.uuids - uuids)
  /\ dropped' = Len(errorHistory) + (r.uuids - uuids) - Len(r.errorHistory)
  /\ UNCHANGED <<historyLimit, limitKept, broken>>
  /\ UNCHANGED stateVars

\* the 'log' listener of the server for a line ProcessMonitor emits
OnLog(logLine) ==
  /\ \E r \in {logListener(Server, logLine, now)} : Becomes(r)
  /\ call' = [op |-> "parseLog", logLine |-> logLine]
  /\ UNCHANGED <<now, timers, pipe, written, chunks>>
  /\ UNCHANGED processVars
  /\ UNCHANGED watcherVars

(***************************************************************************)
(* The server with its files watched: the LogParser and the FileWatcher    *)
(* it constructs, the lines and the file changes that reach them as time   *)
(* passes, and watch_for_errors asking for the correlations.               *)
(***************************************************************************)
\* new LogParser(config), new FileWatcher(config)
WatchInit ==
  /\ patterns = defaultPatterns
  /\ historyLimit = MaxLimit
  /\ errorHistory = <<>>
  /\ now = 0
  /\ uuids = 0
  /\ call = [op |-> "constructor"]
  /\ ret = Undefined
  /\ parsed = 0
  /\ limitKept = TRUE
  /\ dropped = 0
  /\ recentChanges = <<>>
  /\ \E config \in WatchConfigs : correlationWindow = config.correlationWindow
  /\ Started

\* the clock advances; no method is called
Tick(step) ==
  /\ now + step <= MaxNow
  /\ now' = now + step
  /\ UNCHANGED <<call, ret, dropped>>
  /\ UNCHANGED parserVars
  /\ UNCHANGED watcherVars
  /\ UNCHANGED monitorVars
  /\ UNCHANGED serverVars

\* FileWatcher.updateConfig, which loadConfig calls: the server loads its
\* configuration once, when it starts, before a line or a file change
\* reaches it; no watcher is set then, and none is restarted
WatcherUpdateConfig(config) ==
  /\ call.op = "constructor"
  /\ correlationWindow' = config.correlationWindow
  /\ call' = [op |-> "watcherUpdateConfig"]
  /\ ret' = Undefined
  /\ dropped' = 0
  /\ UNCHANGED <<recentChanges, now>>
  /\ UNCHANGED parserVars
  /\ UNCHANGED monitorVars
  /\ UNCHANGED serverVars

\* the 'add', 'change' and 'unlink' callbacks startWatching sets:
\* handleFileChange
HandleFileChange(event) ==
  /\ recentChanges' =
       handleFileChange(recentChanges, event.path, event.type, now, correlationWindow)
  /\ Len(recentChanges') <= MaxChanges
  /\ dropped' = Len(recentChanges) + 1 - Len(recentChanges')
  /\ call' = [op |-> "handleFileChange", path |-> event.path, type |-> event.type]
  /\ ret' = Undefined
  /\ UNCHANGED <<correlationWindow, now>>
  /\ UNCHANGED parserVars
  /\ UNCHANGED monitorVars
  /\ UNCHANGED serverVars

\* a line of the monitored process reaches the 'log' listener of the server
WatchParseLog(logLine) ==
  /\ uuids < MaxWatched
  /\ OnLog(logLine)

WatchNext ==
  \/ \E step \in Steps : Tick(step)
  \/ \E config \in WatchConfigs : WatcherUpdateConfig(config)
  \/ \E event \in ChangeEvents : HandleFileChange(event)
  \/ \E logLine \in WatchLines : WatchParseLog(logLine)

WatchSpec == WatchInit /\ [][WatchNext]_vars

(***************************************************************************)
(* The server at its start: the constructor parses the built-in rules,     *)
(* startHTTP calls loadConfig once, and then the lines of the monitored    *)
(* process reach parseLog.                                                 *)
(***************************************************************************)
\* the constructor of DevServerMCP
LoadInit ==
  /\ patterns = constructorConfig.patterns
  /\ historyLimit = constructorConfig.historyLimit
  /\ errorHistory = <<>>
  /\ now = 0
  /\ uuids = 0
  /\ call = [op |-> "constructor"]
  /\ ret = Undefined
  /\ parsed = 0
  /\ limitKept = TRUE
  /\ dropped = 0
  /\ recentChanges = <<>>
  /\ correlationWindow = constructorConfig.correlationWindow
  /\ Started

\* loadConfig with the configuration files that exist: when one parses,
\* LogParser.updateConfig and FileWatcher.updateConfig get its
\* configuration (no watcher is set yet); call.loaded is the file the log
\* names
LoadConfig(files) ==
  /\ call.op = "constructor"
  /\ \E r \in {loadConfigFrom([patterns |-> patterns, historyLimit |-> historyLimit,
                                correlationWindow |-> correlationWindow], files, 1)} :
       /\ call' = [op |-> "loadConfig", loaded |-> r.loaded, files |-> files]
       /\ IF r.loaded > 0
            THEN /\ monitorConfig' = configOf(r.config)
                 /\ patterns' = r.config.patterns
                 /\ historyLimit' = r.config.historyLimit
                 /\ errorHistory' = trimHistory(errorHistory, r.config.historyLimit)
                 /\ correlationWindow' = r.config.correlationWindow
            ELSE UNCHANGED <<monitorConfig, patterns, historyLimit, errorHistory,
                             correlationWindow>>
  /\ ret' = Undefined
  /\ dropped' = Len(errorHistory) - Len(errorHistory')
  /\ limitKept' = (parsed = 0 \/ (limitKept /\ historyLimit' = historyLimit))
  /\ UNCHANGED <<now, uuids, parsed, recentChanges>>
  /\ UNCHANGED <<pipe, written, logs, chunks, process, processInfo, children, killTimers,
                 events>>
  /\ UNCHANGED serverVars

\* a line of the monitored process reaches the 'log' listener of the
\* server, once the configuration is loaded
LoadParseLog(logLine) ==
  /\ call.op # "constructor"
  /\ uuids < MaxLoaded
  /\ OnLog(logLine)

LoadNext ==
  \/ \E files \in ConfigFileLists : LoadConfig(files)
  \/ \E logLine \in LoadLines : LoadParseLog(logLine)

LoadSpec == LoadInit /\ [][LoadNext]_vars

(***************************************************************************)
(* The server with a monitored process: no configuration file exists, so   *)
(* the server keeps the configuration of its constructor.  The process     *)
(* writes whole lines to its streams, and a 'data' event delivers either   *)
(* all a stream holds or its first CutLength characters.                   *)
(***************************************************************************)
StreamInit == LoadInit

\* the monitored process writes a line to a stream
ChildWrite(source, line) ==
  /\ Len(written.stdout) + Len(written.stderr) < MaxWritten
  /\ pipe' = [pipe EXCEPT ![source] = @ \o line \o "\n"]
  /\ written' = [written EXCEPT ![source] = Append(@, line)]
  /\ UNCHANGED <<logs, chunks, now, call, ret, dropped>>
  /\ UNCHANGED processVars
  /\ UNCHANGED parserVars
  /\ UNCHANGED watcherVars
  /\ UNCHANGED serverVars

\* a 'data' event of a stream reaches its handler, which emits the lines of
\* data to the 'log' listener
Data(source, data) ==
  /\ \E r \in {onData(Server, data, source, now)} : Becomes(r)
  /\ chunks' = chunks + 1
  /\ call' = [op |-> "data", source |-> source, data |-> data]
  /\ UNCHANGED <<now, timers>>
  /\ UNCHANGED processVars
  /\ UNCHANGED watcherVars

\* the stream delivers the first length characters it holds
StreamData(source, length) ==
  /\ length \in 1..Len(pipe[source])
  /\ Data(source, SubSeq(pipe[source], 1, length))
  /\ pipe' = [pipe EXCEPT ![source] = SubSeq(@, length + 1, Len(@))]
  /\ UNCHANGED written

StreamNext ==
  \/ \E source \in Streams : \E line \in StreamLines : ChildWrite(source, line)
  \/ \E source \in Streams :
       \E length \in {CutLength, Len(pipe[source])} : StreamData(source, length)

StreamSpec == StreamInit /\ [][StreamNext]_vars

(***************************************************************************)
(* The server with its clients: the monitored process writes bursts of     *)
(* lines, each delivered whole by one 'data' event of stdout, clients      *)
(* connect to /sse and close their connections, and time passes.           *)
(***************************************************************************)
BufferInit == LoadInit

\* n lines of a burst
RECURSIVE BurstText(_)
BurstText(n) == IF n = 0 THEN "" ELSE BurstLine \o "\n" \o BurstText(n - 1)

\* the process writes size lines, and stdout delivers them in one event
BurstData(size) ==
  /\ chunks < MaxData
  /\ Data("stdout", BurstText(size))
  /\ written' = [written EXCEPT !.stdout = @ \o [i \in 1..size |-> BurstLine]]
  /\ UNCHANGED pipe

\* the clock advances; no handler runs
BufferTick(step) ==
  /\ now + step <= MaxBufferNow
  /\ now' = now + step
  /\ UNCHANGED <<call, ret, dropped>>
  /\ UNCHANGED parserVars
  /\ UNCHANGED watcherVars
  /\ UNCHANGED monitorVars
  /\ UNCHANGED serverVars

\* GET /sse: the connection joins activeSSEConnections and the timer of
\* sendBufferedErrors is set
Connect(client) ==
  /\ client \notin DOMAIN received
  /\ activeSSEConnections' = activeSSEConnections \cup {client}
  /\ received' = received @@ (client :> <<>>)
  /\ timers' = timers @@ (client :> now + TimerDelay)
  /\ call' = [op |-> "connect", client |-> client]
  /\ UNCHANGED <<errorBuffer, detected, broken, now, ret, dropped>>
  /\ UNCHANGED stateVars
  /\ UNCHANGED parserVars
  /\ UNCHANGED watcherVars
  /\ UNCHANGED monitorVars

\* transport.onclose or transport.onerror: the connection has closed or
\* failed, and its callback fires
OnClose(client) ==
  /\ client \in activeSSEConnections
  /\ activeSSEConnections' = activeSSEConnections \ {client}
  /\ call' = [op |-> "close", client |-> client]
  /\ UNCHANGED <<errorBuffer, detected, timers, received, broken, now, ret, dropped>>
  /\ UNCHANGED stateVars
  /\ UNCHANGED parserVars
  /\ UNCHANGED watcherVars
  /\ UNCHANGED monitorVars

\* the timer of a client fires, when it is due or later:
\* sendBufferedErrors(transport)
SendBuffered(client) ==
  /\ client \in DOMAIN timers
  /\ now' = IF now < timers[client] THEN timers[client] ELSE now
  /\ timers' = [c \in DOMAIN timers \ {client} |-> timers[c]]
  /\ received' = [received EXCEPT ![client] =
                    sendBufferedErrors(errorBuffer, @,
                                       /\ client \in activeSSEConnections
                                       /\ client \notin DOMAIN broken)]
  /\ call' = [op |-> "sendBufferedErrors", client |-> client, due |-> timers[client]]
  /\ UNCHANGED <<errorBuffer, detected, activeSSEConnections, broken, ret, dropped>>
  /\ UNCHANGED stateVars
  /\ UNCHANGED parserVars
  /\ UNCHANGED watcherVars
  /\ UNCHANGED monitorVars

BufferNext ==
  \/ \E size \in BurstSizes : BurstData(size)
  \/ \E step \in BufferSteps : BufferTick(step)
  \/ \E client \in Clients : Connect(client)
  \/ \E client \in Clients : OnClose(client)
  \/ \E client \in Clients : SendBuffered(client)

BufferSpec == BufferInit /\ [][BufferNext]_vars

(***************************************************************************)
(* The server with several clients: lines reach the 'log' listener one by  *)
(* one, clients connect, their connections fail (a send on a failed        *)
(* connection throws or is rejected) and the close and error callbacks     *)
(* fire, some time after the failure or on a close of the client.          *)
(***************************************************************************)
BroadcastInit == LoadInit

\* a line of the monitored process reaches the 'log' listener
BroadcastLog(logLine) ==
  /\ uuids < MaxBroadcast
  /\ OnLog(logLine)

\* the connection of a client fails
Break(client, failure) ==
  /\ client \in activeSSEConnections
  /\ client \notin DOMAIN broken
  /\ broken' = broken @@ (client :> failure)
  /\ UNCHANGED <<errorBuffer, detected, activeSSEConnections, timers, received>>
  /\ UNCHANGED stateVars
  /\ UNCHANGED <<now, call, ret, dropped>>
  /\ UNCHANGED parserVars
  /\ UNCHANGED watcherVars
  /\ UNCHANGED monitorVars

\* the time of the timer passes
BroadcastTick ==
  /\ now < TimerDelay
  /\ now' = TimerDelay
  /\ UNCHANGED <<call, ret, dropped>>
  /\ UNCHANGED parserVars
  /\ UNCHANGED watcherVars
  /\ UNCHANGED monitorVars
  /\ UNCHANGED serverVars

BroadcastNext ==
  \/ \E logLine \in StreamLines : BroadcastLog(logLine)
  \/ \E client \in BroadcastClients : Connect(client)
  \/ \E client \in BroadcastClients : \E failure \in SendFailures : Break(client, failure)
  \/ \E client \in BroadcastClients : OnClose(client)
  \/ \E client \in BroadcastClients : SendBuffered(client)
  \/ BroadcastTick

BroadcastSpec == BroadcastInit /\ [][BroadcastNext]_vars

(***************************************************************************)
(* ProcessMonitor with its children: startMonitoring is called with a      *)
(* command, stopMonitoring is called, a child ends (by itself or by a      *)
(* signal) and its 'close' event is emitted, the timers fire and time      *)
(* passes.  No client is connected, so the listeners of the server for     *)
(* 'process-start' and 'process-exit' send nothing.                        *)
(***************************************************************************)
MonitorInit == LoadInit

Monitor ==
  [process |-> process, processInfo |-> processInfo, children |-> children,
   killTimers |-> killTimers, events |-> events]

\* the monitor is r when a method or a callback returns
MonitorBecomes(r) ==
  /\ process' = r.process
  /\ processInfo' = r.processInfo
  /\ children' = r.children
  /\ killTimers' = r.killTimers
  /\ events' = r.events
  /\ UNCHANGED <<pipe, written, logs, chunks, monitorConfig, ret, dropped>>
  /\ UNCHANGED parserVars
  /\ UNCHANGED watcherVars
  /\ UNCHANGED serverVars

StartMonitoring(hasPid) ==
  /\ Len(children) < MaxChildren
  /\ process # 0 => Len(killTimers) < MaxKillTimers
  /\ MonitorBecomes(startMonitoring(Monitor, hasPid, now))
  /\ call' = [op |-> "startMonitoring", hasPid |-> hasPid]
  /\ UNCHANGED now

StopMonitoring ==
  /\ process # 0 => Len(killTimers) < MaxKillTimers
  /\ MonitorBecomes(stopMonitoring(Monitor, now))
  /\ call' = [op |-> "stopMonitoring"]
  /\ UNCHANGED now

\* a child ends and its 'close' event is emitted; a child without a pid
\* has no handler
ChildClose(child) ==
  /\ children[child].pid
  /\ ~children[child].closed
  /\ MonitorBecomes(closeHandler(Monitor, child))
  /\ call' = [op |-> "close", child |-> child]
  /\ UNCHANGED now

\* the oldest timer of stopMonitoring fires; call names the child
\* stopMonitoring has signalled and the child the callback signals (0 for
\* none)
ForceKill ==
  /\ killTimers # <<>>
  /\ now >= killTimers[1].due
  /\ MonitorBecomes([forceKill(Monitor) EXCEPT !.killTimers = Tail(killTimers)])
  /\ call' = [op |-> "forceKill", child |-> killTimers[1].child,
               signalled |-> IF /\ process # 0
                                /\ ~children[process].killed
                                /\ children[process].pid
                                /\ ~children[process].closed
                               THEN process ELSE 0]
  /\ UNCHANGED now

\* the time of the force-kill timer passes
MonitorTick ==
  /\ now + KillDelay <= MaxMonitorNow
  /\ now' = now + KillDelay
  /\ UNCHANGED <<call, ret, dropped>>
  /\ UNCHANGED parserVars
  /\ UNCHANGED watcherVars
  /\ UNCHANGED monitorVars
  /\ UNCHANGED serverVars

MonitorNext ==
  \/ \E hasPid \in BOOLEAN : StartMonitoring(hasPid)
  \/ StopMonitoring
  \/ \E child \in 1..Len(children) : ChildClose(child)
  \/ ForceKill
  \/ MonitorTick

MonitorSpec == MonitorInit /\ [][MonitorNext]_vars

(***************************************************************************)
(* The server in monitoring mode with its state file: an error is detected *)
(* and updateSharedState writes the state, the heartbeat timer calls       *)
(* updateHeartbeat, reads and writes of the file complete (the writes in   *)
(* the order they were started), and time passes.                          *)
(***************************************************************************)
StateInit == LoadInit

Manager ==
  [stateFile |-> stateFile, state |-> state, writing |-> writing, reading |-> reading]

\* the manager is r after a step of one of its methods
ManagerBecomes(r) ==
  /\ stateFile' = r.stateFile
  /\ state' = r.state
  /\ writing' = r.writing
  /\ reading' = r.reading
  /\ UNCHANGED <<errorBuffer, detected, activeSSEConnections, timers, received, broken>>
  /\ UNCHANGED <<now, ret, dropped>>
  /\ UNCHANGED parserVars
  /\ UNCHANGED watcherVars
  /\ UNCHANGED monitorVars

UpdateSharedState ==
  /\ Len(state.errors) < MaxWrites
  /\ Len(writing) < MaxWriting
  /\ ManagerBecomes(writeState(Manager, sharedData(Manager, now), now))
  /\ call' = [op |-> "writeState"]

\* the oldest writeFile completes
WriteDone ==
  /\ writing # <<>>
  /\ ManagerBecomes([Manager EXCEPT !.stateFile = <<writing[1].content>>,
                                    !.writing = Tail(writing)])
  /\ call' = [op |-> "written", by |-> writing[1].by]

\* the heartbeat timer fires and the file exists: updateHeartbeat up to
\* its first await
Heartbeat ==
  /\ stateFile # <<>>
  /\ reading = 0
  /\ ManagerBecomes([Manager EXCEPT !.reading = 1])
  /\ call' = [op |-> "updateHeartbeat"]

\* the readFile of updateHeartbeat completes
HeartbeatRead ==
  /\ reading > 0
  /\ Len(writing) < MaxWriting
  /\ ManagerBecomes(updateHeartbeat(Manager, now))
  /\ call' = [op |-> "read"]

\* the time between two heartbeats passes
StateTick ==
  /\ now + HeartbeatInterval <= MaxStateNow
  /\ now' = now + HeartbeatInterval
  /\ UNCHANGED <<call, ret, dropped>>
  /\ UNCHANGED parserVars
  /\ UNCHANGED watcherVars
  /\ UNCHANGED monitorVars
  /\ UNCHANGED serverVars

StateNext ==
  \/ UpdateSharedState
  \/ WriteDone
  \/ Heartbeat
  \/ HeartbeatRead
  \/ StateTick

StateSpec == StateInit /\ [][StateNext]_vars

(***************************************************************************)
(* Properties.                                                             *)
(***************************************************************************)
\* the records of a sequence
Range(seq) == {seq[i] : i \in 1..Len(seq)}

\* the components of a path: the text between its "/" separators
RECURSIVE SplitPath(_, _, _)
SplitPath(path, i, component) ==
  IF i > Len(path) THEN <<component>>
  ELSE IF CharAt(path, i) = "/" THEN <<component>> \o SplitPath(path, i + 1, "")
  ELSE SplitPath(path, i + 1, component \o CharAt(path, i))

\* the components of tail are the last components of path
IsTrailingChain(path, tail) ==
  LET p == SplitPath(path, 1, "")
      q == SplitPath(tail, 1, "")
  IN Len(q) <= Len(p) /\ SubSeq(p, Len(p) - Len(q) + 1, Len(p)) = q

\* the rules of the list that match the trimmed line, by index
MatchingRules(ps, trimmedLine) ==
  {i \in 1..Len(ps) : exec(ps[i].pattern, trimmedLine).matched}

HasFile(error) == "file" \in DOMAIN error

\* the paths the file queries ask for
QueryPaths ==
  {"App.svelte", "src/App.svelte", "src/MyApp.svelte", "MyApp.svelte", "pp.svelte",
   "svelte", "missing.ts"}

\* C1: after any sequence of parseLog, updateConfig and clearHistory calls the
\* number of stored records never exceeds the configured historyLimit.
C1_HistoryWithinLimit == Len(getHistory(errorHistory)) <= historyLimit

\* a parseLog call has just evicted the oldest record of a full store
C1_Witness ==
  /\ call.op = "parseLog"
  /\ ret # Null
  /\ parsed > historyLimit
  /\ Len(errorHistory) = historyLimit

\* C2: after historyLimit + k matching lines have been parsed into an
\* initially empty store whose limit did not change, the history holds
\* exactly historyLimit records: the most recently created ones, newest first.
C2_KeepsMostRecent ==
  (limitKept /\ parsed >= historyLimit) =>
    /\ Len(getHistory(errorHistory)) = historyLimit
    /\ \A i \in 1..historyLimit : getHistory(errorHistory)[i].id = uuids - i + 1

\* two more matching lines than the limit have been parsed (k = 2)
C2_Witness ==
  /\ limitKept
  /\ parsed = historyLimit + 2
  /\ Len(errorHistory) = historyLimit

\* C3: right after parseLog returned a record, getRecentErrors(1) is exactly
\* that record.
C3_RecentIsJustParsed ==
  (call.op = "parseLog" /\ ret # Null) => getRecentErrors(errorHistory, 1) = <<ret>>

\* the record went into a store that was full, under a limit set by updateConfig
C3_Witness ==
  /\ call.op = "parseLog"
  /\ ret # Null
  /\ ~limitKept
  /\ Len(errorHistory) = historyLimit
  /\ uuids > historyLimit

\* C4: parseLog returns null for an empty or whitespace-only line and for a
\* line no rule matches, and a call that returns null leaves the history as
\* it was.
C4_NullLeavesHistory ==
  [][\A logLine \in Lines :
        (call' = [op |-> "parseLog", logLine |-> logLine] /\ ParseLog(logLine)) =>
        /\ (Trim(logLine) = "" => ret' = Null)
        /\ (MatchingRules(patterns, Trim(logLine)) = {} => ret' = Null)
        /\ (ret' = Null => errorHistory' = errorHistory)]_vars

\* a non-empty line that no rule matches was parsed over a non-empty history
C4_Witness ==
  /\ call.op = "parseLog"
  /\ ret = Null
  /\ Trim(call.logLine) # ""
  /\ errorHistory # <<>>

\* C5: the record parseLog returns is the one the first matching rule of the
\* list makes, and it is stored exactly once.
C5_FirstRuleWins ==
  (call.op = "parseLog" /\ ret # Null) =>
    LET trimmedLine == Trim(call.logLine)
        first == Least(MatchingRules(patterns, trimmedLine))
    IN /\ ret = createErrorEntry(patterns[first],
                  exec(patterns[first].pattern, trimmedLine).match,
                  trimmedLine, ret.id, ret.timestamp)
       /\ Cardinality({i \in 1..Len(errorHistory) : errorHistory[i].id = ret.id}) = 1
       /\ Len(errorHistory) <= uuids

\* the line parsed is matched by two rules that make different records
C5_Witness ==
  /\ call.op = "parseLog"
  /\ ret # Null
  /\ \E i, j \in MatchingRules(patterns, Trim(call.logLine)) :
       /\ i < j
       /\ patterns[i].extract # patterns[j].extract

\* C6: the TypeScript location line yields category typescript, severity
\* critical, file "src/App.svelte", line 25, column 15 and the message.
C6_TypeScriptLocation ==
  (call.op = "parseLog" /\ call.logLine = TypeScriptLine) =>
    /\ ret # Null
    /\ ret.category = "typescript"
    /\ ret.severity = "critical"
    /\ HasFile(ret) /\ ret.file = "src/App.svelte"
    /\ "line" \in DOMAIN ret /\ ret.line = 25
    /\ "column" \in DOMAIN ret /\ ret.column = 15
    /\ ret.message = "Cannot find name 'test'."

\* C7: a "[vite-plugin-svelte] <message>" line without a location is
\* classified as a svelte warning, stored and counted.
C7_SvelteWarning ==
  (call.op = "parseLog" /\ call.logLine = SvelteLine) =>
    /\ ret # Null
    /\ ret.category = "svelte"
    /\ ret.severity = "warning"
    /\ ret \in Range(getErrorsByCategory(errorHistory, "svelte"))
    /\ getErrorCounts(errorHistory).warning >= 1

\* C8: getErrorsForFile(path) returns every stored record whose file equals
\* path, ends with path as a trailing chain of components, or is itself a
\* trailing chain of components of path.
C8_FileMatchEitherWay ==
  \A path \in QueryPaths : \A error \in Range(errorHistory) :
    (HasFile(error) /\ (IsTrailingChain(error.file, path) \/ IsTrailingChain(path, error.file)))
      => error \in Range(getErrorsForFile(errorHistory, path))

\* C8 as amended: getErrorsForFile(path) returns exactly the stored records
\* whose file equals path or ends with path as a trailing chain of
\* components, in history order; a record whose file is only a trailing part
\* of the query path is not returned.
C8_FileMatchOneWay ==
  \A path \in QueryPaths :
    getErrorsForFile(errorHistory, path) =
      SelectSeq(errorHistory, LAMBDA error :
        HasFile(error) /\ IsTrailingChain(error.file, path))

\* the store holds a record of App.svelte and one of src/MyApp.svelte: the
\* query for src/App.svelte finds neither
C8_Witness ==
  /\ \E error \in Range(errorHistory) : HasFile(error) /\ error.file = "App.svelte"
  /\ \E error \in Range(errorHistory) : HasFile(error) /\ error.file = "src/MyApp.svelte"
  /\ getErrorsForFile(errorHistory, "src/App.svelte") = <<>>

\* C9: getErrorsForFile("App.svelte") returns the records of src/App.svelte
\* and of App.svelte, in history order, only records that have a file, never
\* one whose file merely ends with the characters of the query
\* (src/MyApp.svelte), and nothing for a file no record names.
C9_QueryByFileName ==
  LET found == getErrorsForFile(errorHistory, "App.svelte")
  IN /\ \A error \in Range(errorHistory) :
          (HasFile(error) /\ error.file \in {"src/App.svelte", "App.svelte"})
            => error \in Range(found)
     /\ \A error \in Range(found) : HasFile(error) /\ error.file # "src/MyApp.svelte"
     /\ found = SelectSeq(errorHistory, LAMBDA error : error \in Range(found))
     /\ getErrorsForFile(errorHistory, "missing.ts") = <<>>
     /\ getErrorsForFile(errorHistory, "pp.svelte") = <<>>

\* the store holds records of src/App.svelte, App.svelte and src/MyApp.svelte
\* and the query returns the first two
C9_Witness ==
  /\ {"src/App.svelte", "App.svelte", "src/MyApp.svelte"} \subseteq
       {error.file : error \in {e \in Range(errorHistory) : HasFile(e)}}
  /\ Len(getErrorsForFile(errorHistory, "App.svelte")) = 2

\* C10: the severity counts and the category counts each sum to the number
\* of stored records, every category has a count, and each count is the
\* number of records now stored with that value.
C10_CountsMatchStore ==
  LET bySeverity == getErrorCounts(errorHistory)
      byCategory == getCategoryCounts(errorHistory)
      stored(field, value) ==
        Cardinality({i \in 1..Len(errorHistory) : errorHistory[i][field] = value})
  IN /\ bySeverity.critical + bySeverity.warning + bySeverity.info
          = Len(getHistory(errorHistory))
     /\ DOMAIN byCategory = Categories
     /\ byCategory.typescript + byCategory.svelte + byCategory.vite + byCategory.network
          + byCategory.build + byCategory.runtime + byCategory.accessibility
          + byCategory.unknown = Len(getHistory(errorHistory))
     /\ \A s \in Severities : bySeverity[s] = stored("severity", s)
     /\ \A c \in Categories : byCategory[c] = stored("category", c)

\* records of two severities are stored after an older record was evicted
C10_Witness ==
  /\ call.op = "parseLog"
  /\ uuids > Len(errorHistory)
  /\ Len(errorHistory) = historyLimit
  /\ getErrorCounts(errorHistory).critical >= 1
  /\ getErrorCounts(errorHistory).warning >= 1

\* the position of a record in the history, by its identifier
IndexOf(history, error) == CHOOSE i \in 1..Len(history) : history[i].id = error.id

\* found holds exactly the records of history that are in the set kept, in
\* the order of the history
IsFilterOf(found, history, kept) ==
  /\ \A k \in 1..Len(found) : found[k] \in Range(history) /\ found[k] \in kept
  /\ Len(found) = Cardinality({i \in 1..Len(history) : history[i] \in kept})
  /\ \A k, l \in 1..Len(found) :
       k < l => IndexOf(history, found[k]) < IndexOf(history, found[l])

\* C11: getErrorsBySeverity(s) and getErrorsByCategory(c) return exactly the
\* stored records whose severity (category) equals the argument, in the
\* newest-first order of the history.
C11_FiltersExactInOrder ==
  /\ \A s \in Severities :
       IsFilterOf(getErrorsBySeverity(errorHistory, s), errorHistory,
                  {error \in Range(errorHistory) : error.severity = s})
  /\ \A c \in Categories :
       IsFilterOf(getErrorsByCategory(errorHistory, c), errorHistory,
                  {error \in Range(errorHistory) : error.category = c})

\* the store holds two records of one category around a record of another
C11_Witness ==
  /\ Len(errorHistory) = 3
  /\ errorHistory[1].category = errorHistory[3].category
  /\ errorHistory[2].category # errorHistory[1].category
  /\ errorHistory[2].severity # errorHistory[1].severity
  /\ Len(getErrorsByCategory(errorHistory, errorHistory[1].category)) = 2

\* C12: clearHistory empties the history, the recent errors, the counts and
\* the file counts, whatever the store held; a second clearHistory changes
\* nothing; the limit and the rules stay, and a matching line parsed next is
\* stored.
C12_ClearEmptiesAll ==
  LET self == [patterns |-> patterns, errorHistory |-> errorHistory,
               historyLimit |-> historyLimit]
      once == clearHistory(self)
      twice == clearHistory(once)
  IN /\ getHistory(once.errorHistory) = <<>>
     /\ \A n \in 0..MaxLimit : getRecentErrors(once.errorHistory, n) = <<>>
     /\ \A s \in Severities : getErrorCounts(once.errorHistory)[s] = 0
     /\ \A c \in Categories : getCategoryCounts(once.errorHistory)[c] = 0
     /\ DOMAIN getFileCounts(once.errorHistory) = {}
     /\ twice = once
     /\ once.patterns = self.patterns /\ once.historyLimit = self.historyLimit
     /\ call.op = "clearHistory" => errorHistory = <<>>
     /\ (call.op = "parseLog" /\ ret # Null /\ parsed = 1) => errorHistory = <<ret>>

\* a line with a file was parsed and stored after clearHistory emptied a
\* store of two records
C12_Witness ==
  /\ call.op = "parseLog"
  /\ ret # Null
  /\ parsed = 1
  /\ uuids = 3
  /\ errorHistory = <<ret>>
  /\ DOMAIN getFileCounts(errorHistory) # {}

\* C13: updateConfig cuts the history to its newLimit most recent records, in
\* order, at once; with a limit at or above the size it leaves the history as
\* it is, restoring nothing.
C13_UpdateConfigTruncates ==
  [][\A config \in Configs :
        (call'.op = "updateConfig" /\ UpdateConfig(config)) =>
          /\ config.historyLimit < Len(errorHistory) =>
                /\ Len(errorHistory') = config.historyLimit
                /\ \A i \in 1..config.historyLimit : errorHistory'[i] = errorHistory[i]
          /\ config.historyLimit >= Len(errorHistory) => errorHistory' = errorHistory]_vars

\* updateConfig with a smaller limit has just removed two records
C13_Witness ==
  /\ call.op = "updateConfig"
  /\ dropped = 2
  /\ Len(errorHistory) = historyLimit

\* the correlations watch_for_errors gets from correlateErrors now
Correlations ==
  correlateErrors(recentChanges,
                  recentErrors(errorHistory, now, DefaultRecentMinutes),
                  now, correlationWindow)

\* the errors correlateErrors relates to a change now
RelatedErrors(change) ==
  SelectSeq(recentErrors(errorHistory, now, DefaultRecentMinutes),
            LAMBDA error : isRelatedError(change, error, correlationWindow))

\* the changes correlateErrors does not skip now
FreshChanges ==
  {change \in Range(recentChanges) : now - change.timestamp <= correlationWindow}

\* the number of elements of a sequence that equal x
Count(seq, x) == Cardinality({i \in 1..Len(seq) : seq[i] = x})

\* C14: right after handleFileChange the new change is at the front of
\* recentChanges, the list is ordered most recent first and holds only
\* changes newer than now - 2 * correlationWindow; a change leaves the list
\* only at such a write, and only when it is that old.
C14_ChangesPrunedAtWrite ==
  [][/\ \A event \in ChangeEvents :
          HandleFileChange(event) =>
            /\ recentChanges' # <<>>
            /\ recentChanges'[1] =
                 [path |-> event.path, type |-> event.type, timestamp |-> now]
            /\ \A i, j \in 1..Len(recentChanges') :
                 i < j => recentChanges'[i].timestamp >= recentChanges'[j].timestamp
            /\ \A i \in 1..Len(recentChanges') :
                 recentChanges'[i].timestamp > now - 2 * correlationWindow
            /\ Tail(recentChanges') =
                 SelectSeq(recentChanges, LAMBDA change :
                   change.timestamp > now - 2 * correlationWindow)
     /\ (\A event \in ChangeEvents : ~HandleFileChange(event)) =>
          recentChanges' = recentChanges]_vars

\* a write has just removed a change two windows old and kept a newer one
C14_Witness ==
  /\ call.op = "handleFileChange"
  /\ dropped = 1
  /\ Len(recentChanges) = 2
  /\ recentChanges[1].timestamp = now
  /\ recentChanges[2].timestamp < now

\* C15: every error of every correlation was created at or after the change
\* of the correlation and at most correlationWindow after it.
C15_ErrorsFollowChange ==
  \A correlation \in Range(Correlations) :
    \A error \in Range(correlation.errors) :
      /\ correlation.fileChange.timestamp <= error.timestamp
      /\ error.timestamp <= correlation.fileChange.timestamp + correlationWindow

\* a correlation leaves out the error of its file from before the change
\* and holds the one from after it
C15_Witness ==
  \E k \in 1..Len(Correlations) :
    LET correlation == Correlations[k]
    IN /\ \E error \in Range(errorHistory) :
            /\ HasFile(error)
            /\ error.file = correlation.fileChange.path
            /\ error.timestamp < correlation.fileChange.timestamp
            /\ error \notin Range(correlation.errors)
       /\ \E error \in Range(correlation.errors) :
            error.timestamp > correlation.fileChange.timestamp

\* C16: correlateErrors returns no correlation for a change older than
\* correlationWindow at the time of the query, retained or not, and at most
\* one correlation for each change record.
C16_StaleChangeSkipped ==
  \A correlations \in {Correlations} :
    /\ \A k \in 1..Len(correlations) :
         /\ now - correlations[k].fileChange.timestamp <= correlationWindow
         /\ Count([j \in 1..Len(correlations) |-> correlations[j].fileChange],
                  correlations[k].fileChange)
              <= Count(recentChanges, correlations[k].fileChange)
    /\ Len(correlations) <= Len(recentChanges)

\* a change older than the window is retained, has an error of its file from
\* within its window, and is in no correlation, while a newer change is
C16_Witness ==
  /\ \E change \in Range(recentChanges) :
       /\ now - change.timestamp > correlationWindow
       /\ Len(RelatedErrors(change)) > 0
       /\ \A k \in 1..Len(Correlations) : Correlations[k].fileChange # change
  /\ Len(Correlations) > 0

C18_ConfidenceFormula ==
  \A correlation \in Range(Correlations) :
    LET c == correlation.fileChange
        R == correlation.errors
        w == correlationWindow
        age == now - c.timestamp
        direct == \E e \in Range(R) :
                    HasFile(e) /\ (e.file = c.path \/ EndsWith(c.path, e.file))
        critical == \E e \in Range(R) : e.severity = "critical"
    IN /\ Len(R) > 0
       /\ correlation.confidence =
            Min(100 * w,
                50 * w + (IF direct THEN 30 * w ELSE 0)
                + 20 * Max(0, w - age)
                + Min(20 * w, 5 * w * Len(R))
                + (IF critical THEN 10 * w ELSE 0))

\* one correlation has an unclamped confidence with every bonus in it but
\* that of the time, another has no direct match
C18_Witness ==
  /\ \E k \in 1..Len(Correlations) :
       /\ Correlations[k].confidence = 95 * correlationWindow
       /\ now - Correlations[k].fileChange.timestamp = correlationWindow
  /\ \E k \in 1..Len(Correlations) :
       /\ Len(directMatches(Correlations[k].fileChange, Correlations[k].errors)) = 0
       /\ Correlations[k].confidence < ConfidenceOne(correlationWindow)

\* n copies of x
Repeat(x, n) == [i \in 1..n |-> x]

\* the error lists a change is given: the first errors related to it, the
\* last of them up to four more times
RelatedLists(change) ==
  UNION {{SubSeq(R, 1, k) \o Repeat(R[k], m) : k \in 1..Len(R), m \in 0..4} :
           R \in {RelatedErrors(change)}}

\* C19: with the change, its age, the direct match and the critical error
\* as they are, the confidence does not fall when an error is added.
C19_MoreErrorsNotLower ==
  \A change \in FreshChanges :
    \A R \in RelatedLists(change) :
      \A e \in Range(R) :
        calculateConfidence(change, R, now, correlationWindow)
          <= calculateConfidence(change, R \o <<e>>, now, correlationWindow)

\* for one change the confidence grows from one error to two and stays,
\* below 1.0, from four to five
C19_Witness ==
  \E change \in FreshChanges :
    \E R \in RelatedLists(change) :
      /\ Len(R) = 1
      /\ calculateConfidence(change, R, now, correlationWindow)
           < calculateConfidence(change, R \o R, now, correlationWindow)
      /\ calculateConfidence(change, R \o R \o R \o R, now, correlationWindow)
           = calculateConfidence(change, R \o R \o R \o R \o R, now, correlationWindow)
      /\ calculateConfidence(change, R \o R \o R \o R, now, correlationWindow)
           < ConfidenceOne(correlationWindow)

\* the errors of R with no critical one among them
NoneCritical(R) ==
  [i \in 1..Len(R) |->
     IF R[i].severity = "critical" THEN [R[i] EXCEPT !.severity = "warning"] ELSE R[i]]

\* the errors of NoneCritical(R) with error k critical
OneCritical(R, k) == [NoneCritical(R) EXCEPT ![k].severity = "critical"]

\* C20: the confidence with a critical error among the related errors is
\* strictly higher than that of the same errors with none critical.
C20_CriticalStrictlyHigher ==
  \A change \in FreshChanges :
    \A R \in RelatedLists(change) :
      \A k \in 1..Len(R) :
        calculateConfidence(change, OneCritical(R, k), now, correlationWindow)
          > calculateConfidence(change, NoneCritical(R), now, correlationWindow)

\* C20 as amended: the confidence with a critical error is never lower than
\* that of the same errors with none critical; it is strictly higher when
\* the latter is below 1.0, and both are 1.0 otherwise.
C20_CriticalHigherBelowOne ==
  \A change \in FreshChanges :
    \A R \in RelatedLists(change) :
      \A k \in 1..Len(R) :
        LET critical ==
              calculateConfidence(change, OneCritical(R, k), now, correlationWindow)
            none == calculateConfidence(change, NoneCritical(R), now, correlationWindow)
        IN IF none < ConfidenceOne(correlationWindow)
             THEN critical > none
             ELSE critical = none /\ critical = ConfidenceOne(correlationWindow)

\* one change has errors whose confidence is 1.0 without a critical one,
\* another has errors whose confidence is below 1.0 without one
C20_Witness ==
  /\ \E change \in FreshChanges : \E R \in RelatedLists(change) :
       calculateConfidence(change, NoneCritical(R), now, correlationWindow)
         = ConfidenceOne(correlationWindow)
  /\ \E change \in FreshChanges : \E R \in RelatedLists(change) :
       /\ Len(R) = 1
       /\ calculateConfidence(change, NoneCritical(R), now, correlationWindow)
            < ConfidenceOne(correlationWindow)

\* the unclamped sum of calculateConfidence for a correlation now
UnclampedSum(correlation) ==
  LET c == correlation.fileChange
      R == correlation.errors
      w == correlationWindow
  IN 50 * w
     + (IF Len(directMatches(c, R)) > 0 THEN 30 * w ELSE 0)
     + 20 * Max(0, w - (now - c.timestamp))
     + Min(20 * w, 5 * w * Len(R))
     + (IF \E e \in Range(R) : e.severity = "critical" THEN 10 * w ELSE 0)

\* C21: every confidence correlateErrors returns lies in [0, 1], is at
\* least 0.55, and is exactly 1.0 whenever the unclamped sum of the bonuses
\* reaches or exceeds 1.0.
C21_ConfidenceInRange ==
  \A correlation \in Range(Correlations) :
    /\ 0 <= correlation.confidence
    /\ correlation.confidence <= ConfidenceOne(correlationWindow)
    /\ correlation.confidence * 100 >= 55 * ConfidenceOne(correlationWindow)
    /\ UnclampedSum(correlation) >= ConfidenceOne(correlationWindow)
         => correlation.confidence = ConfidenceOne(correlationWindow)

\* one correlation has an unclamped sum above 1.0 and the confidence 1.0,
\* another a confidence below 1.0
C21_Witness ==
  \A correlations \in {Correlations} :
    /\ \E k \in 1..Len(correlations) :
         /\ UnclampedSum(correlations[k]) > ConfidenceOne(correlationWindow)
         /\ correlations[k].confidence = ConfidenceOne(correlationWindow)
    /\ \E k \in 1..Len(correlations) :
         correlations[k].confidence < ConfidenceOne(correlationWindow)

\* the position of a change in recentChanges
ChangeIndex(change) == CHOOSE i \in 1..Len(recentChanges) : recentChanges[i] = change

\* C22: the list correlateErrors returns is ordered by confidence
\* descending, and correlations of equal confidence keep the order of their
\* changes in recentChanges.
C22_SortedStable ==
  \A correlations \in {Correlations} :
    \A k, l \in 1..Len(correlations) :
      k < l =>
        /\ correlations[k].confidence >= correlations[l].confidence
        /\ (/\ correlations[k].confidence = correlations[l].confidence
            /\ correlations[k].fileChange # correlations[l].fileChange)
           => ChangeIndex(correlations[k].fileChange)
                < ChangeIndex(correlations[l].fileChange)

\* two changes of different times have correlations of equal confidence, in
\* the order of recentChanges
C22_Witness ==
  \A correlations \in {Correlations} :
    /\ Len(correlations) = 2
    /\ correlations[1].confidence = correlations[2].confidence
    /\ correlations[1].fileChange.timestamp > correlations[2].fileChange.timestamp

\* the rules of the configuration file in the rule list
UserRules == SubSeq(patterns, Len(defaultPatterns) + 1, Len(patterns))

\* the built-in rules that match the trimmed line, by index
MatchingBuiltIns(trimmedLine) ==
  {i \in MatchingRules(patterns, trimmedLine) : i <= Len(defaultPatterns)}

\* C23: after a configuration file with user rules is loaded the rule list
\* is the built-in rules in their order followed by the user rules in
\* theirs; a line a built-in rule matches is classified by the built-in
\* rule, and a user rule applies only to lines no built-in rule matches.
C23_BuiltInsBeforeUserRules ==
  /\ Len(patterns) >= Len(defaultPatterns)
  /\ SubSeq(patterns, 1, Len(defaultPatterns)) = defaultPatterns
  /\ Len(UserRules) > 0 =>
       \E file \in ConfigFiles :
         /\ "patterns" \in DOMAIN file
         /\ Len(file.patterns) = Len(UserRules)
         /\ \A j \in 1..Len(UserRules) : RawRule(UserRules[j]) = file.patterns[j]
  /\ (call.op = "parseLog" /\ ret # Null) =>
       \A builtIns \in {MatchingBuiltIns(Trim(call.logLine))} :
         IF builtIns # {}
           THEN /\ ret.category = defaultPatterns[Least(builtIns)].category
                /\ ret.severity = defaultPatterns[Least(builtIns)].severity
           ELSE \E j \in 1..Len(UserRules) :
                  /\ ret.category = UserRules[j].category
                  /\ ret.severity = UserRules[j].severity

\* with two user rules loaded, a line that the built-in rule of TypeScript
\* errors and the user rule ts-code both match was classified by the
\* built-in rule
C23_Witness ==
  /\ Len(UserRules) = 2
  /\ call.op = "parseLog"
  /\ ret # Null
  /\ ret.category = "typescript"
  /\ \E i, j \in MatchingRules(patterns, Trim(call.logLine)) :
       i <= Len(defaultPatterns) /\ j > Len(defaultPatterns)

\* the capture groups the text of a pattern declares: its ( that are not
\* escaped and do not open (?: )
DeclaredGroups(str) ==
  Cardinality({i \in 1..Len(str) :
                 /\ CharAt(str, i) = "("
                 /\ (i = 1 \/ CharAt(str, i - 1) # "\\")
                 /\ (i = Len(str) \/ CharAt(str, i + 1) # "?")})

\* a rule is well formed: its pattern is a regular expression and every
\* extract index names the whole match or a capture group it declares
WellFormed(rule) ==
  /\ ValidSyntax(rule.pattern.source)
  /\ \A field \in DOMAIN rule.extract :
       rule.extract[field] \in 0..DeclaredGroups(rule.pattern.source)

\* C24: no malformed rule (a pattern that is no regular expression, an
\* extract index outside the capture groups the pattern declares) is ever
\* part of the rule list of LogParser.
C24_MalformedRuleRejected ==
  \A i \in 1..Len(patterns) : WellFormed(patterns[i])

\* C25: every record parseLog produces has a non-empty message: the trimmed
\* capture extract.message names when it is set, in range and non-empty,
\* otherwise the text of the whole match, otherwise the trimmed line; a
\* file, line or column whose index is not set or out of range is absent.
C25_MessageNeverEmpty ==
  /\ \A error \in Range(errorHistory) : error.message # ""
  /\ (call.op = "parseLog" /\ ret # Null) =>
       \A trimmedLine \in {Trim(call.logLine)} :
         \A rule \in {patterns[Least(MatchingRules(patterns, trimmedLine))]} :
           \A match \in {exec(rule.pattern, trimmedLine).match} :
             LET InRange(field) ==
                   /\ field \in DOMAIN rule.extract
                   /\ rule.extract[field] \in 0..(Len(match) - 1)
                 capture == IF InRange("message")
                              THEN Trim(match[rule.extract.message + 1]) ELSE ""
             IN /\ ret.message =
                     (IF capture # "" THEN capture
                      ELSE IF match[1] # "" THEN match[1] ELSE trimmedLine)
                /\ \A field \in {"file", "line", "column"} :
                     ~InRange(field) => field \notin DOMAIN ret

\* the store holds a record whose rule matched the empty string, with the
\* line as its message, and a record of the rule whose indices are out of
\* range, with the match as its message and no file, line or column
C25_Witness ==
  /\ \E error \in Range(errorHistory) :
       /\ error.raw = "plain text"
       /\ error.message = "plain text"
       /\ exec(patterns[Least(MatchingRules(patterns, error.raw))].pattern,
               error.raw).match[1] = ""
  /\ \E error \in Range(errorHistory) :
       /\ error.raw = "BAD: thing"
       /\ error.message = "BAD: thing"
       /\ DOMAIN error \cap {"file", "line", "column"} = {}

\* C26: a line or column of a stored record is an integer parsed from the
\* captured text, and a capture that does not parse as an integer leaves
\* the field absent.
C26_LineColumnAreIntegers ==
  \A error \in Range(errorHistory) :
    \A rule \in {patterns[Least(MatchingRules(patterns, error.raw))]} :
      \A match \in {exec(rule.pattern, error.raw).match} :
        \A field \in {"line", "column"} :
          \A captured \in {extractField(match, rule.extract, field)} :
            /\ field \in DOMAIN error =>
                 Truthy(captured) /\ ParseNumber(captured[1]).whole
            /\ (Truthy(captured) /\ ~ParseNumber(captured[1]).whole) =>
                 field \notin DOMAIN error

\* what parseLog made of a line, without the id and the time of the call
Classification(error) ==
  IF error = Null THEN Null
  ELSE [field \in DOMAIN error \ {"id", "timestamp"} |-> error[field]]

\* C27: between two calls of parseLog every rule's expression has lastIndex
\* 0, and what a call makes of a line is what a parser makes of it whose
\* rules were never used: the calls before it change nothing, neither for
\* this parser nor for another LogParser that holds the same rule objects.
C27_LastIndexZeroBetweenCalls ==
  /\ \A i \in 1..Len(patterns) : patterns[i].pattern.lastIndex = 0
  /\ call.op = "parseLog" =>
       \A unused \in {parseLog([patterns |-> [i \in 1..Len(patterns) |->
                                                [patterns[i] EXCEPT !.pattern.lastIndex = 0]],
                                 errorHistory |-> <<>>, historyLimit |-> historyLimit],
                                call.logLine, 0, now).ret} :
         /\ Classification(ret) = Classification(unused)
         /\ Classification(parseLog([patterns |-> patterns, errorHistory |-> <<>>,
                                      historyLimit |-> historyLimit],
                                     call.logLine, 0, now).ret)
              = Classification(unused)

\* the same line was made a record twice, by the same rule
C27_Witness ==
  /\ call.op = "parseLog"
  /\ ret # Null
  /\ Len(errorHistory) >= 2
  /\ errorHistory[1].raw = errorHistory[2].raw
  /\ errorHistory[1].id # errorHistory[2].id

\* the arguments of get_error_history: each of severity, category, limit
\* and since is named or left out
HistoryArgs ==
  {Property("severity", severity) @@ Property("category", category)
     @@ Property("limit", limit) @@ Property("since", since) :
   severity \in {<<>>, <<"critical">>, <<"warning">>},
   category \in {<<>>, <<"typescript">>, <<"svelte">>},
   limit \in {<<>>} \cup {<<n>> : n \in Limits},
   since \in {<<>>} \cup {<<IsoString(time)>> : time \in SinceTimes}}

\* the stored records that pass the filters args names, newest first
PassingFilters(args) ==
  SelectSeq(errorHistory, LAMBDA error :
    /\ "severity" \in DOMAIN args => error.severity = args.severity
    /\ "category" \in DOMAIN args => error.category = args.category
    /\ "since" \in DOMAIN args =>
         \E time \in SinceTimes : args.since = IsoString(time) /\ error.timestamp >= time)

\* C28: get_error_history returns the stored records that pass the
\* severity, category and since filters, newest first, cut to a prefix of
\* at most limit records, for every limit the caller names (50 for none).
C28_HistoryAtMostLimit ==
  \A args \in HistoryArgs :
    \A result \in {getErrorHistory(errorHistory, args)} :
      LET limit == IF "limit" \in DOMAIN args THEN args.limit ELSE DefaultLimit
          passing == PassingFilters(args)
      IN /\ Len(result) <= limit
         /\ result = SubSeq(passing, 1, IF limit < Len(passing) THEN limit ELSE Len(passing))

\* the lines of the 'log' events of a stream, in the order emitted
LinesLogged(source) ==
  LET emitted == SelectSeq(logs, LAMBDA event : event.source = source)
  IN [i \in 1..Len(emitted) |-> emitted[i].line]

\* C29: the 'log' events of a stream carry the lines the monitored process
\* wrote to it, each whole and once, in the order written, however its
\* output is cut into chunks: they are the first of the lines written, and
\* all of them once the stream has delivered all it held.
C29_WholeLinesOnce ==
  \A source \in Streams :
    \A lines \in {LinesLogged(source)} :
      /\ Len(lines) <= Len(written[source])
      /\ lines = SubSeq(written[source], 1, Len(lines))
      /\ pipe[source] = "" => lines = written[source]

\* the notifications the buffer holds, oldest first
Buffered == [i \in 1..Len(errorBuffer) |-> errorBuffer[i].notification]

\* the time a notification names for its error
DetectedAt(notification) == DateParse(notification.params.error.timestamp)[1]

\* C30: the error buffer holds at most maxBufferSize notifications; they are
\* the most recent of the errors detected, in the order detected (all that
\* are younger than the retention time at the last detection, up to
\* maxBufferSize), and sendBufferedErrors sends a client that has
\* connected all of them in that order.
C30_BufferHoldsMostRecent ==
  /\ Len(errorBuffer) <= maxBufferSize
  /\ Len(errorBuffer) <= Len(detected)
  /\ Buffered = SubSeq(detected, Len(detected) - Len(errorBuffer) + 1, Len(detected))
  /\ detected # <<>> =>
       LET cutoff == DetectedAt(detected[Len(detected)]) - bufferRetentionMs
           young == {i \in 1..Len(detected) : DetectedAt(detected[i]) > cutoff}
       IN Len(errorBuffer) = Min(maxBufferSize, Cardinality(young))
  /\ (call.op = "sendBufferedErrors" /\ call.client \in activeSSEConnections) =>
       \A sent \in {received[call.client]} :
         /\ Len(sent) >= Len(errorBuffer)
         /\ SubSeq(sent, Len(sent) - Len(errorBuffer) + 1, Len(sent)) = Buffered

\* more errors were detected than the buffer holds, and a client that
\* connected after them has been sent the buffer
C30_Witness ==
  /\ Len(detected) > maxBufferSize
  /\ Len(errorBuffer) = maxBufferSize
  /\ call.op = "sendBufferedErrors"
  /\ call.client \in activeSSEConnections
  /\ Len(received[call.client]) = maxBufferSize

C32_ForceKillAfterSigterm ==
  (call.op = "forceKill" /\ children[call.child].pid /\ ~children[call.child].closed) =>
    \E i \in 1..Len(children[call.child].signals) :
      children[call.child].signals[i] = "SIGKILL"

\* C33: the timer of stopMonitoring signals no child but the one that was
\* running when stopMonitoring was called.
C33_ForceKillOnlyOldChild ==
  (call.op = "forceKill" /\ call.signalled # 0) => call.signalled = call.child

\* C34: from its spawn until its own 'close' event the last child spawned
\* is the one the monitor holds and describes.
C34_NewChildKept ==
  \A newest \in {Len(children)} :
    (newest > 0 /\ children[newest].pid /\ ~children[newest].closed) =>
      /\ process = newest
      /\ getProcessInfo(Monitor) # <<>>
      /\ getProcessInfo(Monitor)[1].pid = newest

\* C35: a spawn that gives no pid emits 'error' and no 'process-start' and
\* leaves the monitor not running, without process information and
\* uptime; and the monitor is never running without process information.
C35_FailedSpawnNotRunning ==
  /\ (call.op = "startMonitoring" /\ ~call.hasPid) =>
       /\ events[Len(events)] = "error"
       /\ ~isRunning(Monitor)
       /\ getProcessInfo(Monitor) = <<>>
       /\ getUptime(Monitor, now) = <<>>
  /\ isRunning(Monitor) => getProcessInfo(Monitor) # <<>>

\* the directories of a path, in order: its components but the last
DirParts(path) ==
  LET parts == Split(normalize(path), "/") IN SubSeq(parts, 1, Len(parts) - 1)

\* the sequence inner, which is not empty, occurs in outer as consecutive
\* elements
OccursWithin(inner, outer) ==
  /\ inner # <<>>
  /\ \E i \in 1..(Len(outer) - Len(inner) + 1) :
       SubSeq(outer, i, i + Len(inner) - 1) = inner

\* the relation of a changed path and the file of an error: equal, one a
\* suffix of the other, the same file name before the extension, or the
\* directory of one made of whole components of the directory of the other
GenuinelyRelated(path, file) ==
  LET parts1 == Split(normalize(path), "/")
      parts2 == Split(normalize(file), "/")
      filename1 == Split(parts1[Len(parts1)], ".")[1]
      filename2 == Split(parts2[Len(parts2)], ".")[1]
  IN \/ file = path
     \/ EndsWith(file, path)
     \/ EndsWith(path, file)
     \/ filename1 # "" /\ filename1 = filename2
     \/ OccursWithin(DirParts(path), DirParts(file))
     \/ OccursWithin(DirParts(file), DirParts(path))

\* C36: every error of a correlation has a file, and the file and the
\* changed path are related: equal, a suffix, the same base file name, or
\* the directory of one within the directory of the other by whole
\* components.
C36_OnlyRelatedFilesCorrelate ==
  \A correlations \in {Correlations} :
    \A k \in 1..Len(correlations) :
      \A error \in Range(correlations[k].errors) :
        /\ HasFile(error)
        /\ GenuinelyRelated(correlations[k].fileChange.path, error.file)

\* C37: no client is sent a notification of an error more than once.
C37_DeliveredAtMostOnce ==
  \A client \in DOMAIN received :
    \A i, j \in 1..Len(received[client]) :
      received[client][i] = received[client][j] => i = j

\* C38: when sendBufferedErrors has sent a client the buffer, TimerDelay
\* after it connected, every notification of it names an error detected
\* less than bufferRetentionMs before.
C38_ReplayWithinRetention ==
  (/\ call.op = "sendBufferedErrors"
   /\ now = call.due
   /\ call.client \in activeSSEConnections
   /\ call.client \notin DOMAIN broken) =>
    \A sent \in {received[call.client]} :
      \A i \in (Len(sent) - Len(errorBuffer) + 1)..Len(sent) :
        DetectedAt(sent[i]) > now - bufferRetentionMs

\* the configuration ConfigSchema.parse makes of a file, [ok |-> FALSE]
\* when it throws
Validated(rawConfig) ==
  ConfigSchema([patterns |->
                  defaultPatternsForConfig \o
                  (IF "patterns" \in DOMAIN rawConfig THEN rawConfig.patterns ELSE <<>>)]
               @@ rawConfig)

\* the configuration LogParser and FileWatcher hold, as ProcessMonitor
\* holds its own
ComponentsConfig ==
  configOf([patterns |-> patterns, historyLimit |-> historyLimit,
            correlationWindow |-> correlationWindow])

\* C39: ProcessMonitor, LogParser and FileWatcher hold the same
\* configuration at all times; after loadConfig it is that of the first
\* file that parses, every file before it having changed nothing, and the
\* one of the constructor, with the history untouched, when none parses.
C39_FailedLoadKeepsSnapshot ==
  /\ monitorConfig = ComponentsConfig
  /\ call.op = "loadConfig" =>
       LET valid == {k \in 1..Len(call.files) : Validated(call.files[k]).ok}
       IN IF valid = {}
            THEN /\ call.loaded = 0
                 /\ monitorConfig = configOf(constructorConfig)
                 /\ patterns = constructorConfig.patterns
                 /\ errorHistory = <<>>
            ELSE /\ call.loaded = Least(valid)
                 /\ monitorConfig = configOf(Validated(call.files[call.loaded]).value)
                 /\ patterns = Validated(call.files[call.loaded]).value.patterns

\* the first file did not parse and the second did: the three components
\* hold the configuration of the second
C39_Witness ==
  /\ call.op = "loadConfig"
  /\ call.loaded = 2
  /\ ~Validated(call.files[1]).ok
  /\ monitorConfig # configOf(constructorConfig)
  /\ monitorConfig = ComponentsConfig

\* C40: when every writeState and updateHeartbeat has completed, the state
\* file holds the errors, the counts and the process information of the
\* last writeState.
C40_FileHoldsLastWrite ==
  (writing = <<>> /\ reading = 0 /\ stateFile # <<>>) =>
    /\ stateFile[1].errors = stringify(state).errors
    /\ stateFile[1].errorCounts = state.errorCounts
    /\ stateFile[1].processInfo = state.processInfo
    /\ stateFile[1].isRunning = state.isRunning

====

